---- MODULE Spec2Model ----
(***************************************************************************)
(* Model of the issue-triage engine of marlonsc/mcb:                       *)
(*   scripts/fix_smells.py  (Smell model, scoring, strategy registry,      *)
(*                           plan view, auto-fix dispatcher)               *)
(*   scripts/qlty/*.py and scripts/analyze_qlty.py (SarifIssue model,      *)
(*                           filters, analyze_issues)                      *)
(*                                                                         *)
(* A Python string is modelled as a sequence of symbols.  A symbol is a    *)
(* punctuation character (":", "-", "/", "*", " ", "=", a digit) or a      *)
(* word that no operation of the program looks inside.  Substring search,  *)
(* split and comparison work on these sequences the way the Python         *)
(* operations work on characters.                                          *)
(*                                                                         *)
(* severity_score is a float with one decimal digit of precision in every  *)
(* term; the model keeps ten times its value as an integer.                *)
(*                                                                         *)
(* Spec is a run of fix_smells.py: registrations, configuration, plan,     *)
(* auto-fix loop.  PureSpec applies the parsers, the filters, the exports  *)
(* and analyze_issues to any input of the model.  MainSpec is one run of   *)
(* main of fix_smells.py, qlty/main.py or analyze_qlty.py, from the        *)
(* command line to the exit status.                                        *)
(***************************************************************************)
EXTENDS Integers, Sequences, FiniteSets, TLC

\* ------------------------------------------------------------------
\* Bounds of the model
\* ------------------------------------------------------------------

\* longest issue list drawn at Init
MaxSmells == 2

\* most register_strategy calls made before a run
MaxRegister == 2

\* ------------------------------------------------------------------
\* Strings as sequences of symbols
\* ------------------------------------------------------------------

\* the symbols in the order Python compares the strings they spell
SymbolOrder ==
    << " ", "*", "-", ".py", ".rs", ".txt", "/", "0", "1", "2", "3", "4",
       "5", "6", "7", "8", "9", ":", "=", "a", "b", "boolean", "c", "code",
       "control", "count", "crates", "f", "file", "flow", "identical",
       "level", "logic", "m", "nested", "qlty", "similar", "src", "todo",
       "unknown", "x" >>

SymRank(c) == CHOOSE i \in 1..Len(SymbolOrder) : SymbolOrder[i] = c

Min2(a, b) == IF a < b THEN a ELSE b

Max2(a, b) == IF a > b THEN a ELSE b

\* Python's  a < b  on strings
StrLess(a, b) ==
    \E k \in 1..(Min2(Len(a), Len(b)) + 1) :
        /\ \A j \in 1..(k - 1) : a[j] = b[j]
        /\ \/ k = Len(a) + 1 /\ k <= Len(b)
           \/ k <= Len(a) /\ k <= Len(b) /\ SymRank(a[k]) < SymRank(b[k])

\* Python's  needle in hay  on strings
StrContains(needle, hay) ==
    \E i \in 0..(Len(hay) - Len(needle)) :
        \A j \in 1..Len(needle) : hay[i + j] = needle[j]

\* the positions of symbol c in s
Positions(s, c) == {i \in 1..Len(s) : s[i] = c}

SetMax(S) == CHOOSE x \in S : \A y \in S : y <= x

SetMin(S) == CHOOSE x \in S : \A y \in S : x <= y

\* s.split(c)[-1]
SplitLast(s, c) ==
    IF Positions(s, c) = {} THEN s
    ELSE SubSeq(s, SetMax(Positions(s, c)) + 1, Len(s))

\* s.split(c)[0]
SplitFirst(s, c) ==
    IF Positions(s, c) = {} THEN s
    ELSE SubSeq(s, 1, SetMin(Positions(s, c)) - 1)

\* sorted(s, key=...): Python's sort is stable; less[x, y] compares the keys
\* of two elements of s
StableSort(s, less) ==
    LET n == Len(s)
        Before(j, i) == less[s[j], s[i]] \/ (~less[s[i], s[j]] /\ j < i)
        Rank(i) == Cardinality({j \in 1..n : j # i /\ Before(j, i)}) + 1
    IN  [k \in 1..n |-> s[CHOOSE i \in 1..n : Rank(i) = k]]

Range(s) == {s[i] : i \in 1..Len(s)}

\* all sequences over S of length at most n
SeqUpTo(S, n) == UNION {[1..k -> S] : k \in 0..n}

\* ------------------------------------------------------------------
\* Priority (fix_smells.py)
\* ------------------------------------------------------------------

CRITICAL == 1

HIGH == 2

MEDIUM == 3

LOW == 4

INFO == 5

Priority == {CRITICAL, HIGH, MEDIUM, LOW, INFO}

\* Priority(n).name
PriorityName(p) ==
    CASE p = CRITICAL -> "CRITICAL"
      [] p = HIGH -> "HIGH"
      [] p = MEDIUM -> "MEDIUM"
      [] p = LOW -> "LOW"
      [] p = INFO -> "INFO"

\* the rule short names, as symbol sequences
Rule(a, b) == <<a, "-", b>>

Rule3(a, b, c) == <<a, "-", b, "-", c>>

identical_code == Rule("identical", "code")

similar_code == Rule("similar", "code")

nested_control_flow == Rule3("nested", "control", "flow")

boolean_logic == Rule("boolean", "logic")

todo == <<"todo">>

\* RULE_PRIORITY as the module defines it, restricted to the rules of the model
DefaultRulePriority ==
    [r \in {identical_code, similar_code, nested_control_flow, boolean_logic} |->
        CASE r = identical_code -> CRITICAL
          [] r = similar_code -> HIGH
          [] r = nested_control_flow -> MEDIUM
          [] r = boolean_logic -> LOW]

\* ------------------------------------------------------------------
\* Data model (fix_smells.py)
\* ------------------------------------------------------------------

NoFingerprints == [k \in {} |-> <<>>]

FunctionFingerprint(name) == [k \in {"function.name"} |-> name]

SmellLocation(uri, start_line, end_line, language) ==
    [uri |-> uri, start_line |-> start_line, end_line |-> end_line,
     language |-> language]

\* Smell: level is the string parse_sarif stores, "warning" when the result
\* has none
Smell(rule_id, message, location, fingerprints) ==
    [rule_id |-> rule_id, level |-> "warning", message |-> message,
     location |-> location, fingerprints |-> fingerprints]

\* Smell(..., level=level, ...)
SmellWithLevel(s, level) == [s EXCEPT !.level = level]

\* _LANG_MAP, restricted to the extensions of the model
LangMap == [e \in {".py", ".rs"} |-> IF e = ".py" THEN "python" ELSE "rust"]

\* Path(uri).suffix: the extension of the last path component
Suffix(uri) ==
    LET name == SplitLast(uri, "/")
    IN  IF Len(name) >= 2 /\ name[Len(name)] \in {".py", ".rs", ".txt"}
        THEN name[Len(name)]
        ELSE ""

\* SmellLocation.detected_language
detected_language(loc) ==
    IF loc.language # "" THEN loc.language
    ELSE IF Suffix(loc.uri) \in DOMAIN LangMap THEN LangMap[Suffix(loc.uri)]
    ELSE ""

\* SmellLocation.line_count
line_count(loc) == Max2(1, loc.end_line - loc.start_line + 1)

\* faulty variant of rule_short: the namespace prefix is kept
rule_short_Full(s) == s.rule_id

\* Smell.rule_short
rule_short(s) == SplitLast(s.rule_id, ":")

\* Smell.function_name
function_name(s) ==
    IF "function.name" \in DOMAIN s.fingerprints
    THEN s.fingerprints["function.name"]
    ELSE <<>>

Digits == {"0", "1", "2", "3", "4", "5", "6", "7", "8", "9"}

DigitValue(d) == SymRank(d) - SymRank("0")

\* int() of a sequence of digit symbols
RECURSIVE ParseInt(_)
ParseInt(ds) ==
    IF ds = <<>> THEN 0
    ELSE 10 * ParseInt(SubSeq(ds, 1, Len(ds) - 1)) + DigitValue(ds[Len(ds)])

\* the position after the run of spaces that starts at i
RECURSIVE SkipSpaces(_, _)
SkipSpaces(msg, i) ==
    IF i <= Len(msg) /\ msg[i] = " " THEN SkipSpaces(msg, i + 1) ELSE i

\* the end of the run of digits that starts at i (i - 1 when there is none)
RECURSIVE DigitsEnd(_, _)
DigitsEnd(msg, i) ==
    IF i <= Len(msg) /\ msg[i] \in Digits THEN DigitsEnd(msg, i + 1) ELSE i - 1

\* re.search(word \s* = \s* (\d+), msg): the places where the pattern matches
KeywordMatches(msg, word) ==
    {i \in 1..Len(msg) :
        /\ msg[i] = word
        /\ LET e == SkipSpaces(msg, i + 1)
           IN  /\ e <= Len(msg)
               /\ msg[e] = "="
               /\ DigitsEnd(msg, SkipSpaces(msg, e + 1)) >= SkipSpaces(msg, e + 1)}

None == -1

\* Smell.complexity_count: the number of the leftmost match, or None
complexity_count(s) ==
    LET msg == s.message
        hits == KeywordMatches(msg, "count")
    IN  IF hits = {} THEN None
        ELSE LET i == SetMin(hits)
                 d == SkipSpaces(msg, SkipSpaces(msg, i + 1) + 1)
             IN  ParseInt(SubSeq(msg, d, DigitsEnd(msg, d)))

\* ------------------------------------------------------------------
\* State
\* ------------------------------------------------------------------

VARIABLES
    RULE_PRIORITY,       \* fix_smells.RULE_PRIORITY: rule short name -> Priority
    STRATEGY_REGISTRY,   \* fix_smells.STRATEGY_REGISTRY: rule short name -> strategy
    registered,          \* register_strategy calls made so far
    ast_grep_installed,  \* whether the ast-grep binary is on the PATH
    smells,              \* the issue list of the run (main's local "smells")
    pc,                  \* position of the run in main
    planOut,             \* what report_plan printed
    queue,               \* apply_fixes: the sorted fixable smells not yet attempted
    attempts,            \* apply_fixes: one record per loop iteration made
    fixed,               \* apply_fixes: local counter
    skipped,             \* apply_fixes: local counter
    tally,               \* apply_fixes: the final "Found/Results/Manual" lines
    stderr,              \* messages of _ok/_warn/_error during the fix run
    issues,              \* qlty: the SarifIssue list handed to analyze/filters
    report,              \* qlty: the AnalysisReport of analyze_issues
    resAB,               \* filters: result of applying A then B
    resBA,               \* filters: result of applying B then A
    doc,                 \* the findings document handed to a parser
    export,              \* what report_json printed
    argv,                \* main: the parsed command line ("args")
    sarif_file,          \* main: the findings file on disk
    config_file,         \* main: the file named by --config
    scanned,             \* main: what the call of the qlty binary did
    trace,               \* main: the stages completed so far, in order
    exit_code            \* main: the exit status of the process, None while it runs

vars ==
    << RULE_PRIORITY, STRATEGY_REGISTRY, registered, ast_grep_installed, smells,
       pc, planOut, queue, attempts, fixed, skipped, tally, stderr, issues,
       report, resAB, resBA, doc, export, argv, sarif_file, config_file, scanned,
       trace, exit_code >>

\* ------------------------------------------------------------------
\* Scoring (fix_smells.py)
\* ------------------------------------------------------------------

\* faulty variant of priority: unknown rules default to LOW
priority_DefaultLow(s) ==
    IF rule_short(s) \in DOMAIN RULE_PRIORITY
    THEN RULE_PRIORITY[rule_short(s)]
    ELSE LOW

\* Smell.priority
priority(s) ==
    IF rule_short(s) \in DOMAIN RULE_PRIORITY
    THEN RULE_PRIORITY[rule_short(s)]
    ELSE INFO

\* x or 0, for an optional count
OrZero(x) == IF x = None THEN 0 ELSE x

\* faulty variant of severity_score: the base grows with the ordinal
severity_score_Ordinal(s) ==
    priority(s) * 100
        + Min2(line_count(s.location), 100) * 3
        + OrZero(complexity_count(s)) * 5

\* Smell.severity_score, times ten
severity_score(s) ==
    (6 - priority(s)) * 100
        + Min2(line_count(s.location), 100) * 3
        + OrZero(complexity_count(s)) * 5

\* ------------------------------------------------------------------
\* Strategy registry (fix_smells.py)
\* ------------------------------------------------------------------

\* attempt_fix names the method the strategy object runs:
\*   "base"    FixStrategy.attempt_fix
\*   "nesting" NestedControlFlowStrategy.attempt_fix
Strategy(rule, title, instructions, auto_fixable, attempt_fix) ==
    [rule |-> rule, title |-> title, instructions |-> instructions,
     auto_fixable |-> auto_fixable, attempt_fix |-> attempt_fix]

IdenticalCodeStrategy ==
    Strategy(identical_code, "Eliminate identical code blocks",
             "Extract the duplicated block into a shared helper.", FALSE, "base")

SimilarCodeStrategy ==
    Strategy(similar_code, "Deduplicate similar code blocks",
             "Identify the varying parts between the similar blocks", FALSE, "base")

NestedControlFlowStrategy ==
    Strategy(nested_control_flow, "Flatten deeply nested control flow",
             "Reduce nesting depth to <=4 levels:", TRUE, "nesting")

\* faulty variant of BooleanLogicStrategy: it overrides attempt_fix with the
\* rewrite of NestedControlFlowStrategy
BooleanLogicStrategy_Rewrites ==
    Strategy(boolean_logic, "Simplify boolean expressions",
             "Break complex boolean expressions into named predicates:", TRUE,
             "nesting")

BooleanLogicStrategy ==
    Strategy(boolean_logic, "Simplify boolean expressions",
             "Break complex boolean expressions into named predicates:", TRUE,
             "base")

\* _BUILTIN_STRATEGIES, restricted to the rules of the model
BuiltinStrategies ==
    << IdenticalCodeStrategy, SimilarCodeStrategy, NestedControlFlowStrategy,
       BooleanLogicStrategy >>

\* d[k] = v on a dict
DictSet(d, k, v) == [x \in DOMAIN d \cup {k} |-> IF x = k THEN v ELSE d[x]]

\* _register_builtins
RECURSIVE RegisterAll(_, _)
RegisterAll(reg, strategies) ==
    IF strategies = <<>> THEN reg
    ELSE RegisterAll(DictSet(reg, Head(strategies).rule, Head(strategies)),
                     Tail(strategies))

EmptyDict == [k \in {} |-> <<>>]

BuiltinRegistry == RegisterAll(EmptyDict, BuiltinStrategies)

\* strategies a project may register at run time
CustomStrategies ==
    { Strategy(todo, "Resolve the TODO", "Do what the comment says.", TRUE, "base"),
      Strategy(nested_control_flow, "Flatten by hand", "Use guard clauses.", FALSE,
               "base"),
      Strategy(nested_control_flow, "Flatten by rewrite", "Apply the rewrite.", TRUE,
               "nesting") }

\* what get_strategy returns for an unregistered rule
NoStrategy == Strategy(<<>>, "", "", FALSE, "none")

\* faulty variant of get_strategy: a missing rule resolves to the nested-control-flow strategy
get_strategy_Fallback(rule) ==
    IF rule \in DOMAIN STRATEGY_REGISTRY
    THEN STRATEGY_REGISTRY[rule]
    ELSE NestedControlFlowStrategy

\* get_strategy
get_strategy(rule) ==
    IF rule \in DOMAIN STRATEGY_REGISTRY
    THEN STRATEGY_REGISTRY[rule]
    ELSE NoStrategy

\* STRATEGIES of qlty/strategies.py, restricted to the rules of the model
STRATEGIES ==
    [r \in {identical_code, similar_code, nested_control_flow, boolean_logic} |->
        [rule |-> r,
         title |-> CASE r = identical_code -> "Eliminate identical code blocks"
                     [] r = similar_code -> "Refactor similar code blocks"
                     [] r = nested_control_flow -> "Flatten deeply nested control flow"
                     [] r = boolean_logic -> "Simplify boolean expressions"]]

\* get_strategy of qlty/strategies.py: the prefix is stripped inside; a
\* record with an empty rule stands for None
qlty_get_strategy(rule_id) ==
    LET short == SplitLast(rule_id, ":")
    IN  IF short \in DOMAIN STRATEGIES THEN STRATEGIES[short]
        ELSE [rule |-> <<>>, title |-> ""]

\* faulty variant of RegistryAfterRegister: registering drops the other custom entries
RegistryAfterRegister_Reset(reg, s) == DictSet(BuiltinRegistry, s.rule, s)

\* the registry after register_strategy(s)
RegistryAfterRegister(reg, s) == DictSet(reg, s.rule, s)

\* ------------------------------------------------------------------
\* Instruction generator and plan view (fix_smells.py)
\* ------------------------------------------------------------------

ManualInstruction == "Review and refactor manually."

\* generate_fix_instruction: the parts of the text the strategy decides
generate_fix_instruction(s) ==
    LET strategy == get_strategy(rule_short(s))
        has == strategy # NoStrategy
    IN  [priority |-> PriorityName(priority(s)),
         title |-> IF has THEN <<strategy.title>> ELSE <<"Fix", " ">> \o rule_short(s),
         file |-> s.location.uri,
         score |-> severity_score(s),
         instructions |-> IF has THEN strategy.instructions ELSE ManualInstruction,
         banner |-> IF has /\ strategy.auto_fixable
                    THEN "Auto-fixable"
                    ELSE "Manual review required"]

\* the keys of a dict filled in the order of s: distinct values, first occurrence first
RECURSIVE InsertionOrder(_)
InsertionOrder(s) ==
    IF s = <<>> THEN <<>>
    ELSE LET front == InsertionOrder(SubSeq(s, 1, Len(s) - 1))
         IN  IF s[Len(s)] \in Range(front) THEN front ELSE Append(front, s[Len(s)])

RECURSIVE Concat(_)
Concat(ss) == IF ss = <<>> THEN <<>> ELSE Head(ss) \o Concat(Tail(ss))

\* faulty variant of PlanKey: the function name is left out of the key
PlanKey_RuleOnly(s) == rule_short(s)

\* report_plan: key = f"{s.rule_short}:{fn}" with fn = s.function_name or "file"
PlanKey(s) ==
    rule_short(s) \o <<":">>
        \o (IF function_name(s) # <<>> THEN function_name(s) ELSE <<"file">>)

NoSmell == Smell(<<>>, <<>>, SmellLocation(<<>>, 0, 0, ""), NoFingerprints)

NoGuidance ==
    [priority |-> "", title |-> <<>>, file |-> <<>>, score |-> 0,
     instructions |-> "", banner |-> ""]

PlanLine(kind, prio, uri, n, smell, guidance) ==
    [kind |-> kind, prio |-> prio, uri |-> uri, n |-> n, smell |-> smell,
     guidance |-> guidance]

\* report_plan, the loop over one file's smells (sorted by start line)
PlanFile(fs) ==
    LET sorted == StableSort(fs, [x \in Range(fs), y \in Range(fs) |->
                                 x.location.start_line < y.location.start_line])
    IN  [i \in 1..Len(sorted) |->
            IF \E j \in 1..(i - 1) : PlanKey(sorted[j]) = PlanKey(sorted[i])
            THEN PlanLine("xref", "", sorted[i].location.uri, 0, sorted[i], NoGuidance)
            ELSE PlanLine("full", "", sorted[i].location.uri, 0, sorted[i],
                          generate_fix_instruction(sorted[i]))]

\* faulty variant of PlanPriority: the header counts the files of the tier
PlanPriority_CountFiles(all, prio) ==
    LET items == SelectSeq(all, LAMBDA s : priority(s) = prio)
        Of(u) == SelectSeq(items, LAMBDA s : s.location.uri = u)
        uris == InsertionOrder([i \in 1..Len(items) |-> items[i].location.uri])
        files == StableSort(uris, [u \in Range(uris), v \in Range(uris) |->
                                   Len(Of(u)) > Len(Of(v))])
    IN  IF items = <<>> THEN <<>>
        ELSE <<PlanLine("priority", PriorityName(prio), <<>>, Len(files), NoSmell,
                        NoGuidance)>>
             \o Concat([k \in 1..Len(files) |->
                  <<PlanLine("file", "", files[k], Len(Of(files[k])), NoSmell,
                             NoGuidance)>>
                  \o PlanFile(Of(files[k]))])

\* report_plan, the body of the loop over one priority
PlanPriority(all, prio) ==
    LET items == SelectSeq(all, LAMBDA s : priority(s) = prio)
        Of(u) == SelectSeq(items, LAMBDA s : s.location.uri = u)
        uris == InsertionOrder([i \in 1..Len(items) |-> items[i].location.uri])
        files == StableSort(uris, [u \in Range(uris), v \in Range(uris) |->
                                   Len(Of(u)) > Len(Of(v))])
    IN  IF items = <<>> THEN <<>>
        ELSE <<PlanLine("priority", PriorityName(prio), <<>>, Len(items), NoSmell,
                        NoGuidance)>>
             \o Concat([k \in 1..Len(files) |->
                  <<PlanLine("file", "", files[k], Len(Of(files[k])), NoSmell,
                             NoGuidance)>>
                  \o PlanFile(Of(files[k]))])

\* report_plan: the printed plan, one record per block
ReportPlan(all) ==
    Concat([p \in 1..5 |-> PlanPriority(all, p)])

\* ------------------------------------------------------------------
\* Auto-fix dispatcher (fix_smells.py)
\* ------------------------------------------------------------------

\* _NESTING_PATTERNS: the languages that have a pattern
NestingLanguages == {"rust", "python", "javascript", "typescript", "go"}

\* faulty variant of IsFixable: any registered strategy makes a smell fixable
IsFixable_AnyStrategy(s) == get_strategy(rule_short(s)) # NoStrategy

\* apply_fixes: the condition of the "fixable" comprehension
IsFixable(s) ==
    LET st == get_strategy(rule_short(s))
    IN  st # NoStrategy /\ st.auto_fixable

\* faulty variant of FixOrderLess: ascending score
FixOrderLess_Ascending(x, y) ==
    \/ severity_score(x) < severity_score(y)
    \/ /\ severity_score(x) = severity_score(y)
       /\ StrLess(x.location.uri, y.location.uri)

\* apply_fixes: the sort key (-severity_score, uri)
FixOrderLess(x, y) ==
    \/ severity_score(x) > severity_score(y)
    \/ /\ severity_score(x) = severity_score(y)
       /\ StrLess(x.location.uri, y.location.uri)

\* apply_fixes: sorted(fixable, key=...)
FixQueue(all) ==
    LET fixable == SelectSeq(all, IsFixable)
    IN  StableSort(fixable, [x \in Range(fixable), y \in Range(fixable) |->
                                FixOrderLess(x, y)])

\* faulty variant of InvokesTool: the rewrite runs whatever the language
InvokesTool_AnyLanguage(st, s) == st.attempt_fix = "nesting"

\* whether strategy st, given smell s, reaches subprocess.run in _run_ast_grep
InvokesTool(st, s) ==
    /\ st.attempt_fix = "nesting"
    /\ detected_language(s.location) # ""
    /\ detected_language(s.location) \in NestingLanguages

\* what subprocess.run(["ast-grep", ...], timeout=30) can do
ToolOutcomes ==
    IF ast_grep_installed THEN {"ok", "nonzero", "timeout"} ELSE {"notfound"}

\* faulty variant of RunAstGrepResult: a non-zero exit counts as success
RunAstGrepResult_NonzeroOk(outcome) == outcome \in {"ok", "nonzero"}

\* faulty variant of RunAstGrepResult: a missing binary counts as success
RunAstGrepResult_NotFoundOk(outcome) == outcome \in {"ok", "notfound"}

\* _run_ast_grep: the return value for an outcome of the subprocess
RunAstGrepResult(outcome) == outcome = "ok"

\* _run_ast_grep: the message on stderr for an outcome of the subprocess
RunAstGrepMessage(outcome) ==
    CASE outcome = "ok" -> <<"ok", "ast-grep fix applied">>
      [] outcome = "nonzero" -> <<"warn", "ast-grep exit">>
      [] outcome = "timeout" -> <<"error", "ast-grep timed out (30s)">>
      [] outcome = "notfound" -> <<"error", "ast-grep not found">>

\* ------------------------------------------------------------------
\* The inputs of a run
\* ------------------------------------------------------------------

Qlty(rule) == <<"qlty", ":">> \o rule

a_py == <<"a", ".py">>

c_txt == <<"c", ".txt">>

m_b_rs == <<"crates", "/", "m", "/", "b", ".rs">>

\* the findings a parsed document may hold (every parsed smell has a uri;
\* a missing endLine is 0)
SmellPool ==
    { Smell(Qlty(nested_control_flow), <<"level", " ", "=", " ", "5">>,
            SmellLocation(a_py, 10, 12, ""), FunctionFingerprint(<<"f">>)),
      Smell(nested_control_flow, <<"count", "=", "7">>,
            SmellLocation(a_py, 14, 14, ""), FunctionFingerprint(<<"f">>)),
      Smell(Qlty(nested_control_flow), <<>>,
            SmellLocation(m_b_rs, 1, 3, ""), FunctionFingerprint(<<"f">>)),
      Smell(nested_control_flow, <<>>,
            SmellLocation(a_py, 1, 1, "cobol"), NoFingerprints),
      Smell(Qlty(nested_control_flow), <<>>,
            SmellLocation(c_txt, 9, 9, ""), NoFingerprints),
      Smell(Qlty(boolean_logic), <<"x", " ", "count", " ", "=", " ", "4", "1">>,
            SmellLocation(a_py, 20, 20, ""), NoFingerprints),
      Smell(<<"x", ":">> \o todo, <<>>,
            SmellLocation(c_txt, 5, 0, ""), FunctionFingerprint(<<"file">>)),
      Smell(Qlty(todo), <<>>,
            SmellLocation(c_txt, 7, 7, ""), NoFingerprints),
      Smell(Qlty(identical_code), <<>>,
            SmellLocation(a_py, 30, 200, ""), NoFingerprints) }

\* one entry of the "priorities" section of a configuration file
Override(rule, prio_name) == [rule |-> rule, prio_name |-> prio_name]

\* the configuration files of the model: the items of "priorities", in file order
Configs ==
    { <<Override(todo, "high")>>,
      <<Override(boolean_logic, "urgent"), Override(nested_control_flow, "LOW")>> }

\* prio_name.upper()
Upper(name) ==
    CASE name = "high" -> "HIGH"
      [] name = "medium" -> "MEDIUM"
      [] name = "urgent" -> "URGENT"
      [] OTHER -> name

\* Priority[name]: the member of that name; raises KeyError when there is none
PriorityNamed(name) == CHOOSE p \in Priority : PriorityName(p) = name

IsPriorityName(name) == \E p \in Priority : PriorityName(p) = name

\* faulty variant of ApplyOverrides: an unknown tier ends the loop
RECURSIVE ApplyOverrides_StopAtUnknown(_, _)
ApplyOverrides_StopAtUnknown(table, items) ==
    IF items = <<>> THEN table
    ELSE LET it == Head(items)
         IN  IF IsPriorityName(Upper(it.prio_name))
             THEN ApplyOverrides_StopAtUnknown(
                      DictSet(table, it.rule, PriorityNamed(Upper(it.prio_name))),
                      Tail(items))
             ELSE table

\* load_config: the loop over the items of "priorities"
RECURSIVE ApplyOverrides(_, _)
ApplyOverrides(table, items) ==
    IF items = <<>> THEN table
    ELSE LET it == Head(items)
         IN  ApplyOverrides(
                 IF IsPriorityName(Upper(it.prio_name))
                 THEN DictSet(table, it.rule, PriorityNamed(Upper(it.prio_name)))
                 ELSE table,
                 Tail(items))

\* load_config: the _warn calls of the loop, in file order
ConfigWarnings(items) ==
    LET unknown == SelectSeq(items, LAMBDA it : ~IsPriorityName(Upper(it.prio_name)))
    IN  [i \in 1..Len(unknown) |->
            <<"warn", "Unknown priority", unknown[i].prio_name, unknown[i].rule>>]

\* no findings document: the file does not exist, nothing was handed to a parser
NoDocument == [exists |-> FALSE]

\* the qlty binary was not called
NoScan == [outcome |-> "none"]

\* no command line: the state of a call that is not made from main
NoArgs == [cli |-> "none"]

\* AnalysisReport(): the defaults of the dataclass
NoReport ==
    [total_issues |-> 0, issues |-> <<>>, by_severity |-> <<>>, by_rule |-> <<>>,
     by_category |-> <<>>, by_file |-> <<>>, top_files |-> <<>>, top_rules |-> <<>>]

NoTally == [nfix |-> 0, total |-> 0, fixed |-> 0, skipped |-> 0, manual |-> 0]

\* ------------------------------------------------------------------
\* A run of fix_smells.py
\* ------------------------------------------------------------------

Init ==
    /\ RULE_PRIORITY = DefaultRulePriority
    /\ STRATEGY_REGISTRY = BuiltinRegistry
    /\ registered = 0
    /\ ast_grep_installed \in BOOLEAN
    /\ smells \in SeqUpTo(SmellPool, MaxSmells)
    /\ pc = "setup"
    /\ planOut = <<>>
    /\ queue = <<>>
    /\ attempts = <<>>
    /\ fixed = 0
    /\ skipped = 0
    /\ tally = NoTally
    /\ stderr = <<>>
    /\ issues = <<>>
    /\ report = NoReport
    /\ resAB = <<>>
    /\ resBA = <<>>
    /\ doc = NoDocument
    /\ export = <<>>
    /\ argv = NoArgs
    /\ sarif_file = NoDocument
    /\ config_file = NoDocument
    /\ scanned = NoScan
    /\ trace = <<>>
    /\ exit_code = None

QltyVars == <<issues, report, resAB, resBA>>

CliVars ==
    <<doc, export, argv, sarif_file, config_file, scanned, trace, exit_code>>

FixVars == <<queue, attempts, fixed, skipped, tally, stderr>>

\* register_strategy(s), called by a project before the run
register_strategy(s) ==
    /\ pc = "setup"
    /\ registered < MaxRegister
    /\ STRATEGY_REGISTRY' = RegistryAfterRegister(STRATEGY_REGISTRY, s)
    /\ registered' = registered + 1
    /\ UNCHANGED <<RULE_PRIORITY, ast_grep_installed, smells, pc, planOut>>
    /\ UNCHANGED FixVars
    /\ UNCHANGED QltyVars
    /\ UNCHANGED CliVars

\* main: "if args.config: load_config(cfg_path)"
load_config(cfg) ==
    /\ pc = "setup"
    /\ RULE_PRIORITY' = ApplyOverrides(RULE_PRIORITY, cfg)
    /\ stderr' = stderr \o ConfigWarnings(cfg) \o << <<"ok", "Config loaded">> >>
    /\ pc' = "filtered"
    /\ UNCHANGED <<STRATEGY_REGISTRY, registered, ast_grep_installed, smells, planOut,
                   queue, attempts, fixed, skipped, tally>>
    /\ UNCHANGED QltyVars
    /\ UNCHANGED CliVars

\* main without --config
no_config ==
    /\ pc = "setup"
    /\ pc' = "filtered"
    /\ UNCHANGED <<RULE_PRIORITY, STRATEGY_REGISTRY, registered, ast_grep_installed,
                   smells, planOut>>
    /\ UNCHANGED FixVars
    /\ UNCHANGED QltyVars
    /\ UNCHANGED CliVars

\* main: "if not smells: ... sys.exit(0)"
check_empty ==
    /\ pc = "filtered"
    /\ pc' = IF smells = <<>> THEN "exit0" ELSE "plan"
    /\ UNCHANGED <<RULE_PRIORITY, STRATEGY_REGISTRY, registered, ast_grep_installed,
                   smells, planOut>>
    /\ UNCHANGED FixVars
    /\ UNCHANGED QltyVars
    /\ UNCHANGED CliVars

\* main: "if args.plan: report_plan(smells)"
report_plan ==
    /\ pc = "plan"
    /\ planOut' = ReportPlan(smells)
    /\ pc' = "fix"
    /\ UNCHANGED <<RULE_PRIORITY, STRATEGY_REGISTRY, registered, ast_grep_installed,
                   smells>>
    /\ UNCHANGED FixVars
    /\ UNCHANGED QltyVars
    /\ UNCHANGED CliVars

\* main without --plan
no_plan ==
    /\ pc = "plan"
    /\ pc' = "fix"
    /\ UNCHANGED <<RULE_PRIORITY, STRATEGY_REGISTRY, registered, ast_grep_installed,
                   smells, planOut>>
    /\ UNCHANGED FixVars
    /\ UNCHANGED QltyVars
    /\ UNCHANGED CliVars

\* main: "if args.fix: apply_fixes(smells, root)", up to the loop
apply_fixes_begin ==
    /\ pc = "fix"
    /\ queue' = FixQueue(smells)
    /\ fixed' = 0
    /\ skipped' = 0
    /\ pc' = "fixing"
    /\ UNCHANGED <<RULE_PRIORITY, STRATEGY_REGISTRY, registered, ast_grep_installed,
                   smells, planOut, attempts, tally, stderr>>
    /\ UNCHANGED QltyVars
    /\ UNCHANGED CliVars

\* main without --fix
no_fix ==
    /\ pc = "fix"
    /\ pc' = "done"
    /\ UNCHANGED <<RULE_PRIORITY, STRATEGY_REGISTRY, registered, ast_grep_installed,
                   smells, planOut>>
    /\ UNCHANGED FixVars
    /\ UNCHANGED QltyVars
    /\ UNCHANGED CliVars

\* one record per iteration of the loop of apply_fixes
Attempt(smell, tool, result) == [smell |-> smell, tool |-> tool, result |-> result]

\* apply_fixes: one iteration whose attempt_fix returns without running ast-grep
attempt_fix_no_tool ==
    /\ pc = "fixing"
    /\ queue # <<>>
    /\ LET smell == Head(queue)
           st == get_strategy(rule_short(smell))
       IN  /\ ~InvokesTool(st, smell)
           /\ attempts' = Append(attempts, Attempt(smell, "none", FALSE))
    /\ skipped' = skipped + 1
    /\ queue' = Tail(queue)
    /\ UNCHANGED <<RULE_PRIORITY, STRATEGY_REGISTRY, registered, ast_grep_installed,
                   smells, pc, planOut, fixed, tally, stderr>>
    /\ UNCHANGED QltyVars
    /\ UNCHANGED CliVars

\* apply_fixes: one iteration whose attempt_fix runs ast-grep
attempt_fix_tool ==
    /\ pc = "fixing"
    /\ queue # <<>>
    /\ LET smell == Head(queue)
           st == get_strategy(rule_short(smell))
       IN  /\ InvokesTool(st, smell)
           /\ \E outcome \in ToolOutcomes :
                /\ attempts' = Append(attempts,
                                      Attempt(smell, outcome, RunAstGrepResult(outcome)))
                /\ stderr' = Append(stderr, RunAstGrepMessage(outcome))
                /\ IF RunAstGrepResult(outcome)
                   THEN fixed' = fixed + 1 /\ skipped' = skipped
                   ELSE fixed' = fixed /\ skipped' = skipped + 1
    /\ queue' = Tail(queue)
    /\ UNCHANGED <<RULE_PRIORITY, STRATEGY_REGISTRY, registered, ast_grep_installed,
                   smells, pc, planOut, tally>>
    /\ UNCHANGED QltyVars
    /\ UNCHANGED CliVars

\* apply_fixes: after the loop, the printed results
apply_fixes_end ==
    /\ pc = "fixing"
    /\ queue = <<>>
    /\ tally' = [nfix |-> Len(SelectSeq(smells, IsFixable)), total |-> Len(smells),
                 fixed |-> fixed, skipped |-> skipped,
                 manual |-> Len(smells) - Len(SelectSeq(smells, IsFixable))]
    /\ pc' = "done"
    /\ UNCHANGED <<RULE_PRIORITY, STRATEGY_REGISTRY, registered, ast_grep_installed,
                   smells, planOut, queue, attempts, fixed, skipped, stderr>>
    /\ UNCHANGED QltyVars
    /\ UNCHANGED CliVars

Next ==
    \/ \E s \in CustomStrategies : register_strategy(s)
    \/ \E cfg \in Configs : load_config(cfg)
    \/ no_config
    \/ check_empty
    \/ report_plan
    \/ no_plan
    \/ apply_fixes_begin
    \/ no_fix
    \/ attempt_fix_no_tool
    \/ attempt_fix_tool
    \/ apply_fixes_end

Spec == Init /\ [][Next]_vars

\* ------------------------------------------------------------------
\* filter_smells (fix_smells.py)
\* ------------------------------------------------------------------

\* _WORKSPACE_DIRS
WorkspaceDirs ==
    { <<"crates">>, <<"packages">>, <<"apps">>, <<"libs">>, <<"modules">>,
      <<"services">>, <<"projects">>, <<"components">>, <<"plugins">>,
      <<"extensions">>, <<"workspaces">>, <<"internal">>, <<"cmd">>, <<"pkg">> }

\* Path(uri).parts of a relative path: the components between the slashes
RECURSIVE PathParts(_)
PathParts(uri) ==
    IF uri = <<>> THEN <<>>
    ELSE IF Positions(uri, "/") = {} THEN <<uri>>
    ELSE LET cut == SetMin(Positions(uri, "/"))
             rest == PathParts(SubSeq(uri, cut + 1, Len(uri)))
         IN  IF cut = 1 THEN rest ELSE <<SubSeq(uri, 1, cut - 1)>> \o rest

\* SmellLocation.module_name
module_name(loc) ==
    LET parts == PathParts(loc.uri)
        hits == {i \in 1..Len(parts) : parts[i] \in WorkspaceDirs /\ i < Len(parts)}
    IN  IF hits # {} THEN parts[SetMin(hits) + 1]
        ELSE IF Len(parts) >= 2 /\ parts[1] \in {<<"src">>, <<"lib">>} THEN parts[2]
        ELSE <<>>

\* str.lower() on the words of the model
Lower(name) ==
    CASE name = "PYTHON" -> "python"
      [] name = "ERROR" -> "error"
      [] name = "Note" -> "note"
      [] name = "Warning" -> "warning"
      [] OTHER -> name

\* the keyword arguments of filter_smells; an empty string and None are falsy
FilterArgs(file_filter, rule_filter, module_filter, priority_filter, language_filter, min_severity) ==
    [file_filter |-> file_filter, rule_filter |-> rule_filter,
     module_filter |-> module_filter, priority_filter |-> priority_filter,
     language_filter |-> language_filter, min_severity |-> min_severity]

NoFilters == FilterArgs(<<>>, <<>>, <<>>, "", "", None)

\* filter_smells: "if file_filter: ..."
SmellFileFilter(out, file_filter) ==
    IF file_filter = <<>> THEN out
    ELSE SelectSeq(out, LAMBDA s : StrContains(file_filter, s.location.uri))

\* faulty variant of SmellRuleFilter: keeps the first match only
SmellRuleFilter_First(out, rule_filter) ==
    IF rule_filter = <<>> THEN out
    ELSE LET hits == SelectSeq(out, LAMBDA s : StrContains(rule_filter, rule_short(s)))
         IN  IF hits = <<>> THEN <<>> ELSE <<Head(hits)>>

\* filter_smells: "if rule_filter: ..."
SmellRuleFilter(out, rule_filter) ==
    IF rule_filter = <<>> THEN out
    ELSE SelectSeq(out, LAMBDA s : StrContains(rule_filter, rule_short(s)))

\* filter_smells: "if module_filter: ..."
SmellModuleFilter(out, module_filter) ==
    IF module_filter = <<>> THEN out
    ELSE SelectSeq(out, LAMBDA s : StrContains(module_filter, module_name(s.location)))

\* faulty variant of SmellLanguageFilter: the name is compared as given
SmellLanguageFilter_CaseSensitive(out, language_filter) ==
    IF language_filter = "" THEN out
    ELSE SelectSeq(out, LAMBDA s : detected_language(s.location) = language_filter)

\* filter_smells: "if language_filter: ..."
SmellLanguageFilter(out, language_filter) ==
    IF language_filter = "" THEN out
    ELSE SelectSeq(out, LAMBDA s :
                        detected_language(s.location) = Lower(language_filter))

\* filter_smells: "if priority_filter: ..."; an unknown name only warns
SmellPriorityFilter(out, priority_filter) ==
    IF priority_filter = "" THEN out
    ELSE IF IsPriorityName(Upper(priority_filter))
    THEN SelectSeq(out, LAMBDA s : priority(s) = PriorityNamed(Upper(priority_filter)))
    ELSE out

\* filter_smells: "if min_severity is not None: ..." (min_severity times ten)
SmellMinSeverityFilter(out, min_severity) ==
    IF min_severity = None THEN out
    ELSE SelectSeq(out, LAMBDA s : severity_score(s) >= min_severity)

\* filter_smells: the stages that bind "out" to a new list; with none of them
\* the function returns the list it was given ("out = smells ... return out")
SmellStagesApplied(args) ==
    {st \in {"file", "rule", "module", "language", "priority", "min_severity"} :
        CASE st = "file" -> args.file_filter # <<>>
          [] st = "rule" -> args.rule_filter # <<>>
          [] st = "module" -> args.module_filter # <<>>
          [] st = "language" -> args.language_filter # ""
          [] st = "priority" -> /\ args.priority_filter # ""
                                /\ IsPriorityName(Upper(args.priority_filter))
          [] st = "min_severity" -> args.min_severity # None}

filter_smells(all, args) ==
    SmellMinSeverityFilter(
      SmellPriorityFilter(
        SmellLanguageFilter(
          SmellModuleFilter(
            SmellRuleFilter(
              SmellFileFilter(all, args.file_filter),
              args.rule_filter),
            args.module_filter),
          args.language_filter),
        args.priority_filter),
      args.min_severity)

\* ------------------------------------------------------------------
\* SarifIssue, analyze_issues and the filters of the qlty CLI
\* ------------------------------------------------------------------

SeverityERROR == 3

SeverityWARNING == 2

SeverityINFO == 1

SeverityNONE == 0

\* Severity.from_str
from_str(s) ==
    CASE Lower(s) = "error" -> SeverityERROR
      [] Lower(s) = "warning" -> SeverityWARNING
      [] Lower(s) = "note" -> SeverityINFO
      [] OTHER -> SeverityNONE

\* SarifIssue: category and fingerprints have the defaults of the dataclass,
\* "" and an empty dict
SarifIssue(rule_id, level, file_path, start_line, end_line) ==
    [rule_id |-> rule_id, level |-> level, file_path |-> file_path,
     start_line |-> start_line, end_line |-> end_line, category |-> "",
     fingerprints |-> NoFingerprints]

\* SarifIssue(..., fingerprints=fingerprints)
IssueWithFingerprints(i, fingerprints) == [i EXCEPT !.fingerprints = fingerprints]

\* SarifIssue.rule_category
rule_category(i) ==
    IF Positions(i.rule_id, ":") # {} THEN SplitFirst(i.rule_id, ":")
    ELSE <<"unknown">>

\* faulty variant of CounterAdd: a key seen again starts over at one
CounterAdd_Restart(c, k) ==
    IF \E i \in 1..Len(c) : c[i].key = k
    THEN [i \in 1..Len(c) |-> IF c[i].key = k THEN [key |-> k, n |-> 1] ELSE c[i]]
    ELSE Append(c, [key |-> k, n |-> 1])

\* counter[k] += 1 on a collections.Counter, kept as its items in insertion order
CounterAdd(c, k) ==
    IF \E i \in 1..Len(c) : c[i].key = k
    THEN [i \in 1..Len(c) |-> IF c[i].key = k THEN [key |-> k, n |-> c[i].n + 1]
                                               ELSE c[i]]
    ELSE Append(c, [key |-> k, n |-> 1])

\* "for issue in issues: counter[keys[issue]] += 1"
RECURSIVE Populate(_, _)
Populate(c, keys) ==
    IF keys = <<>> THEN c
    ELSE Populate(CounterAdd(c, Head(keys)), Tail(keys))

\* the length of the top lists of a report
TopN == 20

\* faulty variant of most_common: the list is not cut
most_common_Unbounded(c, n) ==
    StableSort(c, [x \in Range(c), y \in Range(c) |-> x.n > y.n])

\* Counter.most_common(n)
most_common(c, n) ==
    LET sorted == StableSort(c, [x \in Range(c), y \in Range(c) |-> x.n > y.n])
    IN  SubSeq(sorted, 1, Min2(n, Len(sorted)))

_populate_severity_counts(all) ==
    Populate(<<>>, [i \in 1..Len(all) |-> all[i].level])

_populate_rule_counts(all) ==
    Populate(<<>>, [i \in 1..Len(all) |-> all[i].rule_id])

_populate_category_counts(all) ==
    Populate(<<>>, [i \in 1..Len(all) |-> rule_category(all[i])])

_populate_file_counts(all) ==
    Populate(<<>>, [i \in 1..Len(all) |-> all[i].file_path])

AnalyzeIssues(all) ==
    [total_issues |-> Len(all),
     issues |-> all,
     by_severity |-> _populate_severity_counts(all),
     by_rule |-> _populate_rule_counts(all),
     by_category |-> _populate_category_counts(all),
     by_file |-> _populate_file_counts(all),
     top_files |-> most_common(_populate_file_counts(all), TopN),
     top_rules |-> most_common(_populate_rule_counts(all), TopN)]

\* fnmatch.fnmatch(name, pat) for patterns whose only wildcard is "*"
RECURSIVE fnmatch(_, _)
fnmatch(name, pat) ==
    IF pat = <<>> THEN name = <<>>
    ELSE IF Head(pat) = "*"
    THEN \E k \in 0..Len(name) : fnmatch(SubSeq(name, k + 1, Len(name)), Tail(pat))
    ELSE name # <<>> /\ Head(name) = Head(pat) /\ fnmatch(Tail(name), Tail(pat))

\* the argparse.Namespace fields the filters read; "" and [] are falsy
QltyArgs(severity, rule, category, file, exclude_rule, exclude_category, exclude_file) ==
    [severity |-> severity, rule |-> rule, category |-> category, file |-> file,
     exclude_rule |-> exclude_rule, exclude_category |-> exclude_category,
     exclude_file |-> exclude_file]

NoQltyArgs == QltyArgs("", <<>>, <<>>, <<>>, <<>>, <<>>, <<>>)

_apply_severity_filter(args, filtered) ==
    IF args.severity = "" THEN filtered
    ELSE SelectSeq(filtered, LAMBDA i : i.level = from_str(args.severity))

_apply_rule_filter(args, filtered) ==
    IF args.rule = <<>> THEN filtered
    ELSE SelectSeq(filtered, LAMBDA i : StrContains(args.rule, i.rule_id))

_apply_category_filter(args, filtered) ==
    IF args.category = <<>> THEN filtered
    ELSE SelectSeq(filtered, LAMBDA i : StrContains(args.category, rule_category(i)))

_apply_file_filter(args, filtered) ==
    IF args.file = <<>> THEN filtered
    ELSE SelectSeq(filtered, LAMBDA i : fnmatch(i.file_path, args.file))

\* "for rule in args.exclude_rule: filtered = [...]"
RECURSIVE ExcludeRules(_, _)
ExcludeRules(rules, filtered) ==
    IF rules = <<>> THEN filtered
    ELSE ExcludeRules(Tail(rules),
             SelectSeq(filtered, LAMBDA i : ~StrContains(Head(rules), i.rule_id)))

_apply_exclude_rule_filter(args, filtered) == ExcludeRules(args.exclude_rule, filtered)

\* "for cat in args.exclude_category: filtered = [...]"
RECURSIVE ExcludeCategories(_, _)
ExcludeCategories(cats, filtered) ==
    IF cats = <<>> THEN filtered
    ELSE ExcludeCategories(Tail(cats),
             SelectSeq(filtered,
                       LAMBDA i : ~StrContains(Head(cats), rule_category(i))))

_apply_exclude_category_filter(args, filtered) ==
    ExcludeCategories(args.exclude_category, filtered)

\* "for pattern in args.exclude_file: filtered = [...]"
RECURSIVE ExcludeFiles(_, _)
ExcludeFiles(pats, filtered) ==
    IF pats = <<>> THEN filtered
    ELSE ExcludeFiles(Tail(pats),
             SelectSeq(filtered, LAMBDA i : ~fnmatch(i.file_path, Head(pats))))

_apply_exclude_file_filter(args, filtered) == ExcludeFiles(args.exclude_file, filtered)

\* the filters of the qlty CLI that bind "filtered" to a new list; with none
\* of them "filtered" stays the list "all_issues"
QltyStagesApplied(args) ==
    {st \in {"severity", "rule", "category", "file", "exclude_rule",
              "exclude_category", "exclude_file"} :
        CASE st = "severity" -> args.severity # ""
          [] st = "rule" -> args.rule # <<>>
          [] st = "category" -> args.category # <<>>
          [] st = "file" -> args.file # <<>>
          [] st = "exclude_rule" -> args.exclude_rule # <<>>
          [] st = "exclude_category" -> args.exclude_category # <<>>
          [] st = "exclude_file" -> args.exclude_file # <<>>}

\* main of the qlty CLI: the filters in the order it applies them
apply_filters(args, all) ==
    _apply_exclude_file_filter(args,
      _apply_exclude_category_filter(args,
        _apply_exclude_rule_filter(args,
          _apply_file_filter(args,
            _apply_category_filter(args,
              _apply_rule_filter(args,
                _apply_severity_filter(args, all)))))))

\* ------------------------------------------------------------------
\* report_summary and report_json (fix_smells.py), the JSON output of
\* analyze_qlty.py
\* ------------------------------------------------------------------

\* faulty variant of JsonOrderLess: ties broken by descending path
JsonOrderLess_PathDescending(x, y) ==
    \/ severity_score(x) > severity_score(y)
    \/ /\ severity_score(x) = severity_score(y)
       /\ StrLess(y.location.uri, x.location.uri)

\* report_json: the sort key (-x.severity_score, x.location.uri)
JsonOrderLess(x, y) ==
    \/ severity_score(x) > severity_score(y)
    \/ /\ severity_score(x) = severity_score(y)
       /\ StrLess(x.location.uri, y.location.uri)

\* report_summary: the total and the "By rule" counter
ReportSummary(all) ==
    [total |-> Len(all),
     by_rule |-> Populate(<<>>, [i \in 1..Len(all) |-> rule_short(all[i])])]

\* faulty variant of JsonRecord: the rule is written with its prefix
JsonRecord_FullRule(s) ==
    [rule |-> s.rule_id, priority |-> PriorityName(priority(s)),
     severity_score |-> severity_score(s), file |-> s.location.uri,
     start_line |-> s.location.start_line, end_line |-> s.location.end_line,
     function |-> function_name(s), message |-> s.message,
     language |-> detected_language(s.location),
     module |-> module_name(s.location)]

\* report_json: the dictionary written for one smell
JsonRecord(s) ==
    [rule |-> rule_short(s), priority |-> PriorityName(priority(s)),
     severity_score |-> severity_score(s), file |-> s.location.uri,
     start_line |-> s.location.start_line, end_line |-> s.location.end_line,
     function |-> function_name(s), message |-> s.message,
     language |-> detected_language(s.location),
     module |-> module_name(s.location)]

\* report_json: the list handed to json.dumps
ReportJson(all) ==
    LET sorted == StableSort(all, [x \in Range(all), y \in Range(all) |->
                                      JsonOrderLess(x, y)])
    IN  [i \in 1..Len(sorted) |-> JsonRecord(sorted[i])]

\* SarifIssue.location_str
location_str(i) ==
    IF i.end_line # None /\ i.end_line # 0 /\ i.end_line # i.start_line
    THEN <<i.file_path, i.start_line, i.end_line>>
    ELSE <<i.file_path, i.start_line>>

\* Severity.name
SeverityName(level) ==
    CASE level = SeverityERROR -> "ERROR"
      [] level = SeverityWARNING -> "WARNING"
      [] level = SeverityINFO -> "INFO"
      [] level = SeverityNONE -> "NONE"

\* _generate_outputs of analyze_qlty.py: the dictionary written for --json
AnalysisJson(rep, filtered) ==
    [total |-> rep.total_issues, by_severity |-> rep.by_severity,
     by_rule |-> rep.by_rule, by_category |-> rep.by_category,
     by_file |-> rep.by_file,
     issues |-> [k \in 1..Len(filtered) |->
                    [rule_id |-> filtered[k].rule_id,
                     level |-> SeverityName(filtered[k].level),
                     location |-> location_str(filtered[k]),
                     file |-> filtered[k].file_path,
                     line |-> filtered[k].start_line]]]

\* ------------------------------------------------------------------
\* The report views (qlty/report.py, fix_smells.py)
\* ------------------------------------------------------------------

\* faulty variant of Pct: the division is not guarded
Pct_Unguarded(count, total) ==
    IF total = 0 THEN [raised |-> "ZeroDivisionError"]
    ELSE [raised |-> "", tenths |-> (count * 2000 + total) \div (2 * total)]

\* "pct = (count / self.total_issues * 100) if self.total_issues > 0 else 0"
\* formatted with one decimal: the percentage in tenths, or the exception of
\* the division
Pct(count, total) ==
    IF total > 0
    THEN [raised |-> "", tenths |-> (count * 2000 + total) \div (2 * total)]
    ELSE [raised |-> "", tenths |-> 0]

\* counter.get(k, 0)
CounterGet(c, k) ==
    IF \E i \in 1..Len(c) : c[i].key = k
    THEN (CHOOSE x \in Range(c) : x.key = k).n
    ELSE 0

\* the rows "key, count, percentage" of a table
PctRows(items, total) ==
    [i \in 1..Len(items) |->
        [key |-> items[i].key, n |-> items[i].n, pct |-> Pct(items[i].n, total)]]

\* the rows of the severity breakdown: ERROR, WARNING, INFO
SeverityRows(rep) ==
    PctRows([k \in 1..3 |->
                [key |-> 4 - k, n |-> CounterGet(rep.by_severity, 4 - k)]],
            rep.total_issues)

\* a view raises when one of its percentages does
RowsRaised(rows) == \E i \in 1..Len(rows) : rows[i].pct.raised # ""

\* AnalysisReport.generate_summary: the sections of the text, or the
\* exception that ends it
generate_summary(rep) ==
    LET severity == SeverityRows(rep)
        category == PctRows(most_common(rep.by_category, 10), rep.total_issues)
        rules == PctRows(SubSeq(rep.top_rules, 1, Min2(10, Len(rep.top_rules))),
                         rep.total_issues)
        files == SubSeq(rep.top_files, 1, Min2(10, Len(rep.top_files)))
    IN  IF RowsRaised(severity \o category \o rules)
        THEN [raised |-> "ZeroDivisionError"]
        ELSE [raised |-> "", total |-> rep.total_issues, severity |-> severity,
              category |-> category, rules |-> rules, files |-> files]

\* AnalysisReport._generate_severity_section for each of ERROR, WARNING, INFO:
\* nothing for a level without issues, else the rules by descending count,
\* each with the strategy _generate_rule_section looks up
SeveritySections(rep) ==
    Concat([k \in 1..3 |->
        LET sev_issues == SelectSeq(rep.issues, LAMBDA i : i.level = 4 - k)
        IN  IF sev_issues = <<>> THEN <<>>
            ELSE LET by_rule == most_common(_populate_rule_counts(sev_issues),
                                            Len(sev_issues))
                 IN  << [sev |-> 4 - k, n |-> Len(sev_issues),
                         rules |-> [r \in 1..Len(by_rule) |->
                                      [rule |-> by_rule[r].key, n |-> by_rule[r].n,
                                       strategy |->
                                           qlty_get_strategy(by_rule[r].key)]]] >>])

\* AnalysisReport.generate_markdown
generate_markdown(rep) ==
    LET severity == SeverityRows(rep)
        category == PctRows(most_common(rep.by_category, Len(rep.by_category)),
                            rep.total_issues)
        rules == PctRows(SubSeq(rep.top_rules, 1, Min2(20, Len(rep.top_rules))),
                         rep.total_issues)
        files == SubSeq(rep.top_files, 1, Min2(20, Len(rep.top_files)))
    IN  IF RowsRaised(severity \o category \o rules)
        THEN [raised |-> "ZeroDivisionError"]
        ELSE [raised |-> "", total |-> rep.total_issues, severity |-> severity,
              category |-> category, rules |-> rules, files |-> files,
              sections |-> SeveritySections(rep)]

\* report_detail: one block per file, the files by descending count, the
\* smells of a file by start line
ReportDetail(all) ==
    LET Of(u) == SelectSeq(all, LAMBDA s : s.location.uri = u)
        uris == InsertionOrder([i \in 1..Len(all) |-> all[i].location.uri])
        files == StableSort(uris, [u \in Range(uris), v \in Range(uris) |->
                                   Len(Of(u)) > Len(Of(v))])
    IN  [k \in 1..Len(files) |->
            [uri |-> files[k], n |-> Len(Of(files[k])),
             items |-> StableSort(Of(files[k]),
                          [x \in Range(all), y \in Range(all) |->
                              x.location.start_line < y.location.start_line])]]

\* report_markdown: the total and one section per priority that has smells
ReportMarkdown(all) ==
    [total |-> Len(all),
     sections |->
        Concat([p \in 1..5 |->
            LET items == SelectSeq(all, LAMBDA s : priority(s) = p)
            IN  IF items = <<>> THEN <<>>
                ELSE << [prio |-> PriorityName(p), n |-> Len(items),
                         items |-> StableSort(items,
                                      [x \in Range(all), y \in Range(all) |->
                                          JsonOrderLess(x, y)])] >>])]

\* ------------------------------------------------------------------
\* The findings document and the two parsers
\* (fix_smells.parse_sarif, qlty.parser.parse_sarif_file)
\* ------------------------------------------------------------------

\* d.get(k, default) on a JSON object, kept as a function on its keys
Get(d, k, default) == IF k \in DOMAIN d THEN d[k] ELSE default

\* one entry of "locations"; a key is absent when its argument is None
Loc(uri, startLine, endLine) ==
    ("physicalLocation" :>
        ( (IF uri = <<>> THEN EmptyDict ELSE "artifactLocation" :> ("uri" :> uri))
          @@ "region" :>
               ( "startLine" :> startLine
                 @@ (IF endLine = None THEN EmptyDict ELSE "endLine" :> endLine) ) ))

\* the results a scanner may write
\* a result with two locations, the first one in a.py
NestedResult ==
    ( "ruleId" :> Qlty(nested_control_flow) @@ "level" :> "error"
      @@ "message" :> ("text" :> <<"level", " ", "=", " ", "5">>)
      @@ "locations" :> <<Loc(a_py, 10, 12), Loc(m_b_rs, 1, 3)>>
      @@ "partialFingerprints" :> FunctionFingerprint(<<"f">>) )

\* a result with no "locations" key
NoLocationsResult == ( "ruleId" :> Qlty(similar_code) @@ "level" :> "warning" )

\* a result with an empty "locations" list
EmptyLocationsResult == ( "ruleId" :> Qlty(identical_code) @@ "locations" :> <<>> )

\* a result with no "endLine" and no "level"
NoEndLineResult ==
    ( "ruleId" :> (<<"x", ":">> \o todo) @@ "locations" :> <<Loc(c_txt, 5, None)>> )

\* a result whose location has no "artifactLocation", and no "ruleId"
NoArtifactResult == ( "level" :> "note" @@ "locations" :> <<Loc(<<>>, 7, 7)>> )

\* a result whose level is written in capitals
UpperLevelResult ==
    ( "ruleId" :> Qlty(boolean_logic) @@ "level" :> "ERROR"
      @@ "locations" :> <<Loc(a_py, 20, 20)>> )

\* a result whose level is not a word of the vocabulary
UnknownLevelResult ==
    ( "ruleId" :> Qlty(todo) @@ "level" :> "fatal"
      @@ "locations" :> <<Loc(c_txt, 7, 7)>> )

\* a result with both fingerprint keys
BothKeysResult ==
    ( "ruleId" :> Qlty(similar_code) @@ "level" :> "warning"
      @@ "locations" :> <<Loc(a_py, 40, 44)>>
      @@ "partialFingerprints" :> FunctionFingerprint(<<"f">>)
      @@ "fingerprints" :> FunctionFingerprint(<<"m">>) )

\* a result with both fingerprint keys, the first one holding an empty object
EmptyFirstKeyResult ==
    ( "ruleId" :> Qlty(similar_code) @@ "level" :> "warning"
      @@ "locations" :> <<Loc(a_py, 50, 54)>>
      @@ "partialFingerprints" :> NoFingerprints
      @@ "fingerprints" :> FunctionFingerprint(<<"m">>) )

\* a result with the second fingerprint key only
SecondKeyResult ==
    ( "ruleId" :> Qlty(similar_code) @@ "level" :> "warning"
      @@ "locations" :> <<Loc(a_py, 60, 64)>>
      @@ "fingerprints" :> FunctionFingerprint(<<"m">>) )

\* the results a findings document of the model may hold
ResultPool ==
    { NestedResult, NoLocationsResult, EmptyLocationsResult, NoEndLineResult,
      NoArtifactResult, UpperLevelResult, UnknownLevelResult, BothKeysResult,
      EmptyFirstKeyResult, SecondKeyResult }

\* a SARIF 2.1.0 document with one run holding the results rs
SarifDocument(rs) == ("version" :> "2.1.0" @@ "runs" :> << ("results" :> rs) >>)

Documents ==
    { SarifDocument(rs) : rs \in SeqUpTo(ResultPool, MaxSmells) }
    \cup {EmptyDict}

\* the results of all runs of a document, in document order
AllResults(data) ==
    LET runs == Get(data, "runs", <<>>)
    IN  Concat([i \in 1..Len(runs) |-> Get(runs[i], "results", <<>>)])

\* _extract_location returns None
NoLocation == [none |-> TRUE]

\* faulty variant of _extract_location: a result without locations gets a
\* location of its own
_extract_location_Always(result) ==
    LET locations == Get(result, "locations", <<>>)
        phys == IF locations = <<>> THEN EmptyDict
                ELSE Get(locations[1], "physicalLocation", EmptyDict)
        region == Get(phys, "region", EmptyDict)
    IN  SmellLocation(Get(Get(phys, "artifactLocation", EmptyDict), "uri", <<"unknown">>),
                      Get(region, "startLine", 0), Get(region, "endLine", 0),
                      Get(region, "sourceLanguage", ""))

_extract_location(result) ==
    LET locations == Get(result, "locations", <<>>)
    IN  IF locations = <<>> THEN NoLocation
        ELSE LET phys == Get(locations[1], "physicalLocation", EmptyDict)
                 art == Get(phys, "artifactLocation", EmptyDict)
                 region == Get(phys, "region", EmptyDict)
                 uri == Get(art, "uri", <<>>)
             IN  IF uri = <<>> THEN NoLocation
                 ELSE SmellLocation(uri, Get(region, "startLine", 0),
                                    Get(region, "endLine", 0),
                                    Get(region, "sourceLanguage", ""))

\* parse_sarif: the loop over the results (the version warning goes to stderr
\* and does not change the list)
RECURSIVE ParseResults(_)
ParseResults(results) ==
    IF results = <<>> THEN <<>>
    ELSE LET result == Head(results)
             loc == _extract_location(result)
         IN  IF loc = NoLocation THEN ParseResults(Tail(results))
             ELSE <<SmellWithLevel(
                        Smell(Get(result, "ruleId", <<>>),
                              Get(Get(result, "message", EmptyDict), "text", <<>>),
                              loc,
                              Get(result, "partialFingerprints", NoFingerprints)),
                        Get(result, "level", "warning"))>>
                  \o ParseResults(Tail(results))

ParseSarif(data) == ParseResults(AllResults(data))

\* parse_sarif: "if vsn != SARIF_VERSION: _warn(...)"
VersionWarning(data) ==
    IF Get(data, "version", "") # "2.1.0"
    THEN << <<"warn", "Expected SARIF 2.1.0">> >>
    ELSE <<>>

\* parse_sarif_file: 'fingerprints = result.get("partialFingerprints", {})',
\* then 'if not fingerprints: fingerprints = result.get("fingerprints", {})'
ResultFingerprints(result) ==
    LET fingerprints == Get(result, "partialFingerprints", NoFingerprints)
    IN  IF DOMAIN fingerprints = {} THEN Get(result, "fingerprints", NoFingerprints)
        ELSE fingerprints

\* parse_sarif_file: the loop over the results
RECURSIVE ParseFileResults(_)
ParseFileResults(results) ==
    IF results = <<>> THEN <<>>
    ELSE LET result == Head(results)
             locations == Get(result, "locations", <<>>)
         IN  IF locations = <<>> THEN ParseFileResults(Tail(results))
             ELSE LET physical_loc == Get(locations[1], "physicalLocation", EmptyDict)
                      artifact_loc == Get(physical_loc, "artifactLocation", EmptyDict)
                      region == Get(physical_loc, "region", EmptyDict)
                      start_line == Get(region, "startLine", 0)
                  IN  <<IssueWithFingerprints(
                            SarifIssue(Get(result, "ruleId", <<"unknown">>),
                                       from_str(Get(result, "level", "note")),
                                       Get(artifact_loc, "uri", <<"unknown">>),
                                       start_line,
                                       Get(region, "endLine", start_line)),
                            ResultFingerprints(result))>>
                      \o ParseFileResults(Tail(results))

ParseSarifFile(data) == ParseFileResults(AllResults(data))

\* ------------------------------------------------------------------
\* analyze_issues and the filters on their own: any issue list, any two
\* command lines that each set one filter
\* ------------------------------------------------------------------

\* the issues a parsed document may hold
IssuePool ==
    { SarifIssue(Qlty(similar_code), SeverityERROR, a_py, 1, 4),
      SarifIssue(Qlty(identical_code), SeverityERROR, a_py, 2, 2),
      SarifIssue(<<"x", ":">> \o todo, SeverityWARNING, m_b_rs, 3, 3),
      SarifIssue(todo, SeverityINFO, c_txt, 4, 4),
      SarifIssue(Qlty(nested_control_flow), SeverityNONE, m_b_rs, 5, 9) }

\* fix_smells.py --file/--rule/--module/--lang/--priority/--min-score
SmellFilterChoices ==
    { NoFilters,
      [NoFilters EXCEPT !.file_filter = <<".py">>],
      [NoFilters EXCEPT !.file_filter = <<"crates", "/">>],
      [NoFilters EXCEPT !.rule_filter = <<"nested">>],
      [NoFilters EXCEPT !.rule_filter = <<"-">>],
      [NoFilters EXCEPT !.module_filter = <<"m">>],
      [NoFilters EXCEPT !.language_filter = "PYTHON"],
      [NoFilters EXCEPT !.language_filter = "rust"],
      [NoFilters EXCEPT !.priority_filter = "medium"],
      [NoFilters EXCEPT !.priority_filter = "INFO"],
      [NoFilters EXCEPT !.priority_filter = "bogus"],
      [NoFilters EXCEPT !.min_severity = 0],
      [NoFilters EXCEPT !.min_severity = 305] }

\* qlty CLI --severity/--rule/--category/--file/--exclude-*; --severity is
\* one of error, warning, note
QltyFilterChoices ==
    { NoQltyArgs,
      [NoQltyArgs EXCEPT !.severity = "error"],
      [NoQltyArgs EXCEPT !.severity = "note"],
      [NoQltyArgs EXCEPT !.rule = <<"todo">>],
      [NoQltyArgs EXCEPT !.category = <<"qlty">>],
      [NoQltyArgs EXCEPT !.category = <<"unknown">>],
      [NoQltyArgs EXCEPT !.file = <<"*", ".py">>],
      [NoQltyArgs EXCEPT !.file = <<"crates", "/", "*">>],
      [NoQltyArgs EXCEPT !.exclude_rule = << <<"todo">> >>],
      [NoQltyArgs EXCEPT !.exclude_rule = << <<"similar">>, <<"identical">> >>],
      [NoQltyArgs EXCEPT !.exclude_category = << <<"x">> >>],
      [NoQltyArgs EXCEPT !.exclude_file = << <<"*", ".rs">> >>] }

DigitSymbols == <<"0", "1", "2", "3", "4", "5", "6", "7", "8", "9">>

\* the k-th file and the k-th rule of a long issue list
NumberedFile(k) ==
    <<"f", DigitSymbols[(k \div 10) + 1], DigitSymbols[(k % 10) + 1], ".py">>

NumberedRule(k) ==
    <<"qlty", ":", "m", DigitSymbols[(k \div 10) + 1], DigitSymbols[(k % 10) + 1]>>

\* issue lists with more files than a top list holds: 22 issues in 22 files
\* under 22 rules; the same files under 3 rules, followed by one more issue
\* in file 22 and two more in file 21
WideIssueLists ==
    { [k \in 1..22 |-> SarifIssue(NumberedRule(k), SeverityWARNING,
                                   NumberedFile(k), k, k)],
      [k \in 1..25 |->
          LET f == CASE k <= 22 -> k
                     [] k = 23 -> 22
                     [] OTHER -> 21
          IN  SarifIssue(NumberedRule(f % 3), SeverityERROR, NumberedFile(f), k, k)] }

PureInit ==
    /\ RULE_PRIORITY = DefaultRulePriority
    /\ STRATEGY_REGISTRY = BuiltinRegistry
    /\ registered = 0
    /\ ast_grep_installed = FALSE
    /\ \/ smells \in SeqUpTo(SmellPool, MaxSmells) /\ issues = <<>> /\ doc = NoDocument
       \/ smells = <<>> /\ issues \in SeqUpTo(IssuePool, MaxSmells) /\ doc = NoDocument
       \/ smells = <<>> /\ issues \in WideIssueLists /\ doc = NoDocument
       \/ smells = <<>> /\ issues = <<>> /\ doc \in Documents
    /\ pc = "pure"
    /\ planOut = <<>>
    /\ queue = <<>>
    /\ attempts = <<>>
    /\ fixed = 0
    /\ skipped = 0
    /\ tally = NoTally
    /\ stderr = <<>>
    /\ report = NoReport
    /\ resAB = <<>>
    /\ resBA = <<>>
    /\ export = <<>>
    /\ argv = NoArgs
    /\ sarif_file = NoDocument
    /\ config_file = NoDocument
    /\ scanned = NoScan
    /\ trace = <<>>
    /\ exit_code = None

RunVars ==
    <<RULE_PRIORITY, STRATEGY_REGISTRY, registered, ast_grep_installed, planOut,
      queue, attempts, fixed, skipped, tally, stderr>>

\* report = analyze_issues(issues)
analyze_issues ==
    /\ pc = "pure"
    /\ smells = <<>>
    /\ doc = NoDocument
    /\ report' = AnalyzeIssues(issues)
    /\ pc' = "analyzed"
    /\ UNCHANGED <<smells, issues, resAB, resBA>>
    /\ UNCHANGED RunVars
    /\ UNCHANGED CliVars

\* filter_smells with the arguments a, then with b, and the other way round
filter_smells_twice(a, b) ==
    /\ pc = "pure"
    /\ issues = <<>>
    /\ doc = NoDocument
    /\ resAB' = [input |-> "smells", first |-> a, second |-> b,
                 out |-> filter_smells(filter_smells(smells, a), b)]
    /\ resBA' = [input |-> "smells", first |-> b, second |-> a,
                 out |-> filter_smells(filter_smells(smells, b), a)]
    /\ pc' = "filtered_twice"
    /\ UNCHANGED <<smells, issues, report>>
    /\ UNCHANGED RunVars
    /\ UNCHANGED CliVars

\* the filters of the qlty CLI with the arguments a, then with b, and the
\* other way round
apply_filters_twice(a, b) ==
    /\ pc = "pure"
    /\ smells = <<>>
    /\ doc = NoDocument
    /\ resAB' = [input |-> "issues", first |-> a, second |-> b,
                 out |-> apply_filters(b, apply_filters(a, issues))]
    /\ resBA' = [input |-> "issues", first |-> b, second |-> a,
                 out |-> apply_filters(a, apply_filters(b, issues))]
    /\ pc' = "filtered_twice"
    /\ UNCHANGED <<smells, issues, report>>
    /\ UNCHANGED RunVars
    /\ UNCHANGED CliVars

\* the arguments of a and, where a gives none, those of b
MergeArgs(a, b, none) ==
    [k \in DOMAIN a |-> IF a[k] = none[k] THEN b[k] ELSE a[k]]

\* out = filter_smells(smells, ...) with the arguments of a and b together
filter_smells_call(a, b) ==
    /\ pc = "pure"
    /\ issues = <<>>
    /\ doc = NoDocument
    /\ LET args == MergeArgs(a, b, NoFilters)
       IN  resAB' = [input |-> "smells", args |-> args, before |-> smells,
                     out |-> filter_smells(smells, args),
                     returns_input |-> SmellStagesApplied(args) = {}]
    /\ pc' = "filter_called"
    /\ UNCHANGED <<smells, issues, report, resBA>>
    /\ UNCHANGED RunVars
    /\ UNCHANGED CliVars

\* the filters of the qlty CLI with the arguments of a and b together
apply_filters_call(a, b) ==
    /\ pc = "pure"
    /\ smells = <<>>
    /\ doc = NoDocument
    /\ LET args == MergeArgs(a, b, NoQltyArgs)
       IN  resAB' = [input |-> "issues", args |-> args, before |-> issues,
                     out |-> apply_filters(args, issues),
                     returns_input |-> QltyStagesApplied(args) = {}]
    /\ pc' = "filter_called"
    /\ UNCHANGED <<smells, issues, report, resBA>>
    /\ UNCHANGED RunVars
    /\ UNCHANGED CliVars

\* report_json(smells)
report_json ==
    /\ pc = "pure"
    /\ issues = <<>>
    /\ doc = NoDocument
    /\ export' = ReportJson(smells)
    /\ pc' = "exported"
    /\ UNCHANGED <<smells, issues, report, resAB, resBA>>
    /\ UNCHANGED RunVars
    /\ UNCHANGED <<doc, argv, sarif_file, config_file, scanned, trace, exit_code>>

\* main of analyze_qlty.py with --json: the filters, analyze_issues and the
\* JSON output of _generate_outputs
analyze_and_export(a) ==
    /\ pc = "pure"
    /\ smells = <<>>
    /\ doc = NoDocument
    /\ LET filtered == apply_filters(a, issues)
       IN  /\ report' = AnalyzeIssues(filtered)
           /\ export' = AnalysisJson(AnalyzeIssues(filtered), filtered)
    /\ pc' = "exported_analysis"
    /\ UNCHANGED <<smells, issues, resAB, resBA>>
    /\ UNCHANGED RunVars
    /\ UNCHANGED <<doc, argv, sarif_file, config_file, scanned, trace, exit_code>>

\* the fields of args that _collect_all_issues reads
CollectArgs(type, check, smells_flag) ==
    [type |-> type, check |-> check, smells |-> smells_flag]

\* the command lines of the qlty CLI: --type has three choices and a default
CollectChoices ==
    { CollectArgs(type, check, smells_flag) :
          type \in {"checks", "smells", "both"}, check \in BOOLEAN,
          smells_flag \in BOOLEAN }

\* faulty variant of CollectFlags: without the final "if args.check or args.smells"
CollectFlags_NoOverride(args) ==
    LET c0 == args.type \in {"checks", "both"}
        s0 == args.type \in {"smells", "both"}
        c1 == IF args.check THEN TRUE ELSE c0
        s1 == IF args.check /\ ~args.smells /\ args.type = "" THEN FALSE ELSE s0
        s2 == IF args.smells THEN TRUE ELSE s1
        c2 == IF args.smells /\ ~args.check /\ args.type = "" THEN FALSE ELSE c1
    IN  [do_checks |-> c2, do_smells |-> s2]

\* _collect_all_issues of qlty/main.py and of analyze_qlty.py: do_checks and
\* do_smells after the three "if" statements, in their order
CollectFlags(args) ==
    LET c0 == args.type \in {"checks", "both"}
        s0 == args.type \in {"smells", "both"}
        c1 == IF args.check THEN TRUE ELSE c0
        s1 == IF args.check /\ ~args.smells /\ args.type = "" THEN FALSE ELSE s0
        s2 == IF args.smells THEN TRUE ELSE s1
        c2 == IF args.smells /\ ~args.check /\ args.type = "" THEN FALSE ELSE c1
    IN  IF args.check \/ args.smells
        THEN [do_checks |-> args.check, do_smells |-> args.smells]
        ELSE [do_checks |-> c2, do_smells |-> s2]

\* "for check in checks: check.category = 'check'", and the same for smells
WithCategory(found, category) ==
    [i \in 1..Len(found) |-> [found[i] EXCEPT !.category = category]]

\* all_issues = _collect_all_issues(args) without --scan, the checks file
\* holding checks and the smells file holding issues
_collect_all_issues(args, checks) ==
    /\ pc = "pure"
    /\ smells = <<>>
    /\ doc = NoDocument
    /\ LET flags == CollectFlags(args)
       IN  resAB' = [input |-> "collect", args |-> args, checks_file |-> checks,
                     smells_file |-> issues,
                     calls |-> (IF flags.do_checks THEN <<"checks">> ELSE <<>>)
                               \o (IF flags.do_smells THEN <<"smells">> ELSE <<>>),
                     out |-> (IF flags.do_checks THEN WithCategory(checks, "check")
                              ELSE <<>>)
                             \o (IF flags.do_smells THEN WithCategory(issues, "smell")
                                 ELSE <<>>)]
    /\ pc' = "collected"
    /\ UNCHANGED <<smells, issues, report, resBA>>
    /\ UNCHANGED RunVars
    /\ UNCHANGED CliVars

\* smells = parse_sarif(path), the file holding doc
parse_sarif ==
    /\ pc = "pure"
    /\ doc # NoDocument
    /\ smells' = ParseSarif(doc)
    /\ pc' = "parsed"
    /\ UNCHANGED <<issues, report, resAB, resBA>>
    /\ UNCHANGED RunVars
    /\ UNCHANGED CliVars

\* issues = parse_sarif_file(path), the file holding doc
parse_sarif_file ==
    /\ pc = "pure"
    /\ doc # NoDocument
    /\ issues' = ParseSarifFile(doc)
    /\ pc' = "parsed_file"
    /\ UNCHANGED <<smells, report, resAB, resBA>>
    /\ UNCHANGED RunVars
    /\ UNCHANGED CliVars

\* the views of the qlty CLI on the issues parsed from doc: analyze_issues,
\* then generate_summary and generate_markdown
render_reports ==
    /\ pc = "parsed_file"
    /\ report' = AnalyzeIssues(issues)
    /\ export' = [summary |-> generate_summary(AnalyzeIssues(issues)),
                  markdown |-> generate_markdown(AnalyzeIssues(issues))]
    /\ pc' = "rendered"
    /\ UNCHANGED <<smells, issues, resAB, resBA>>
    /\ UNCHANGED RunVars
    /\ UNCHANGED <<doc, argv, sarif_file, config_file, scanned, trace, exit_code>>

\* the views of fix_smells.py on the smells parsed from doc: report_summary,
\* report_detail, report_plan, report_json and report_markdown
render_smell_reports ==
    /\ pc = "parsed"
    /\ export' = [summary |-> ReportSummary(smells), detail |-> ReportDetail(smells),
                  plan |-> ReportPlan(smells), json |-> ReportJson(smells),
                  markdown |-> ReportMarkdown(smells)]
    /\ pc' = "rendered_smells"
    /\ UNCHANGED <<smells, issues, report, resAB, resBA>>
    /\ UNCHANGED RunVars
    /\ UNCHANGED <<doc, argv, sarif_file, config_file, scanned, trace, exit_code>>

PureNext ==
    \/ analyze_issues
    \/ parse_sarif
    \/ parse_sarif_file
    \/ \E a \in SmellFilterChoices, b \in SmellFilterChoices : filter_smells_twice(a, b)
    \/ \E a \in QltyFilterChoices, b \in QltyFilterChoices : apply_filters_twice(a, b)
    \/ report_json
    \/ \E a \in QltyFilterChoices : analyze_and_export(a)
    \/ \E a, b \in SmellFilterChoices : filter_smells_call(a, b)
    \/ \E a, b \in QltyFilterChoices : apply_filters_call(a, b)
    \/ render_reports
    \/ render_smell_reports
    \/ \E args \in CollectChoices, checks \in SeqUpTo(IssuePool, 1) :
          _collect_all_issues(args, checks)

PureSpec == PureInit /\ [][PureNext]_vars

\* ------------------------------------------------------------------
\* The command-line programs: one run of main from the command line to
\* the exit status
\* ------------------------------------------------------------------

\* a file holding the JSON value data
FileWith(data) == [exists |-> TRUE, valid |-> TRUE, data |-> data]

\* a file whose text is not JSON
MalformedFile == [exists |-> TRUE, valid |-> FALSE]

\* what one call of the qlty binary can do: no binary, no answer within the
\* timeout, or an exit with some text on stdout
ScanRun(outcome, data) == [outcome |-> outcome, data |-> data]

\* the findings documents of a run from the command line
MainDocuments ==
    { SarifDocument(<<NoLocationsResult>>),
      SarifDocument(<<NestedResult, NoEndLineResult>>) }

ScanRuns ==
    { ScanRun(o, EmptyDict) : o \in {"notfound", "timeout", "empty", "malformed"} }
    \cup { ScanRun("json", d) : d \in MainDocuments }

\* build_parser of fix_smells.py: the fields of args that main reads
FixSmellsArgs(config, scan, filters, actions) ==
    [cli |-> "fix_smells", config |-> config, scan |-> scan, filters |-> filters,
     summary |-> "summary" \in actions, detail |-> "detail" \in actions,
     plan |-> "plan" \in actions, fix |-> "fix" \in actions,
     json |-> "json" \in actions, markdown |-> "markdown" \in actions]

\* the action flags of fix_smells.py
ActionFlags == {"summary", "detail", "plan", "fix", "json", "markdown"}

\* main: "has_action = any([...]); if not has_action: args.summary = True"
SummarySelected(args) ==
    \/ args.summary
    \/ ~(args.summary \/ args.detail \/ args.plan \/ args.fix \/ args.json
         \/ args.markdown)

\* the stages of main that ran to their end, in the order they ran
Done(stage) == trace' = Append(trace, stage)

\* the process ends with the given status
Exit(code) == pc' = "exited" /\ exit_code' = code

\* what no run of main touches
MainFrame ==
    <<STRATEGY_REGISTRY, registered, ast_grep_installed, queue, resAB, resBA, doc,
      argv, config_file>>


\* main of fix_smells.py: "if args.config: load_config(cfg_path)"; open() and
\* json.load raise on a missing or malformed file and nothing catches them
main_load_config ==
    /\ pc = "main_config"
    /\ IF ~argv.config
       THEN /\ pc' = "main_scan"
            /\ UNCHANGED <<RULE_PRIORITY, stderr, trace, exit_code>>
       ELSE IF config_file.exists /\ config_file.valid
       THEN /\ RULE_PRIORITY' = ApplyOverrides(RULE_PRIORITY, config_file.data)
            /\ stderr' = stderr \o ConfigWarnings(config_file.data)
                                \o << <<"ok", "Config loaded">> >>
            /\ Done("load_config")
            /\ pc' = "main_scan"
            /\ UNCHANGED exit_code
       ELSE /\ stderr' = Append(stderr, <<"traceback", "load_config">>)
            /\ Exit(1)
            /\ UNCHANGED <<RULE_PRIORITY, trace>>
    /\ UNCHANGED <<smells, planOut, attempts, fixed, skipped, tally, issues, report,
                   export, sarif_file>>
    /\ UNCHANGED <<MainFrame, scanned>>

\* run_qlty_smells of fix_smells.py: the message of its sys.exit(1) branches
ScanError(outcome) ==
    CASE outcome = "notfound" -> <<"error", "qlty not found">>
      [] outcome = "timeout" -> <<"error", "qlty timed out">>
      [] outcome = "empty" -> <<"error", "qlty produced no SARIF output.">>
      [] outcome = "malformed" -> <<"error", "Invalid JSON from qlty">>

\* main of fix_smells.py: "if args.scan: sarif = run_qlty_smells(...)"
main_scan ==
    /\ pc = "main_scan"
    /\ IF ~argv.scan
       THEN /\ pc' = "main_parse"
            /\ UNCHANGED <<stderr, sarif_file, scanned, trace, exit_code>>
       ELSE \E run \in ScanRuns :
              /\ scanned' = run
              /\ IF run.outcome = "json"
                 THEN /\ sarif_file' = FileWith(run.data)
                      /\ stderr' = Append(stderr, <<"ok", "SARIF written">>)
                      /\ trace' = trace \o <<"scan:validated", "scan:written", "scan">>
                      /\ pc' = "main_parse"
                      /\ UNCHANGED exit_code
                 ELSE /\ stderr' = Append(stderr, ScanError(run.outcome))
                      /\ Exit(1)
                      /\ UNCHANGED <<sarif_file, trace>>
    /\ UNCHANGED <<RULE_PRIORITY, smells, planOut, attempts, fixed, skipped, tally,
                   issues, report, export>>
    /\ UNCHANGED MainFrame

\* main of fix_smells.py: "if not sarif.exists(): ... sys.exit(1)", then
\* parse_sarif, whose json.load raises on a malformed file
main_parse ==
    /\ pc = "main_parse"
    /\ IF ~sarif_file.exists
       THEN /\ stderr' = Append(stderr, <<"error", "SARIF not found">>)
            /\ Exit(1)
            /\ UNCHANGED <<smells, trace>>
       ELSE IF ~sarif_file.valid
       THEN /\ stderr' = Append(stderr, <<"traceback", "parse_sarif">>)
            /\ Exit(1)
            /\ UNCHANGED <<smells, trace>>
       ELSE /\ smells' = ParseSarif(sarif_file.data)
            /\ stderr' = stderr \o VersionWarning(sarif_file.data)
            /\ Done("parse")
            /\ pc' = "main_filter"
            /\ UNCHANGED exit_code
    /\ UNCHANGED <<RULE_PRIORITY, planOut, attempts, fixed, skipped, tally, issues,
                   report, export, sarif_file>>
    /\ UNCHANGED <<MainFrame, scanned>>

\* faulty variant of main_filter: the actions run on an empty set too
main_filter_NoEmptyCheck ==
    /\ pc = "main_filter"
    /\ smells' = filter_smells(smells, argv.filters)
    /\ Done("filter")
    /\ pc' = "main_summary"
    /\ UNCHANGED <<RULE_PRIORITY, planOut, attempts, fixed, skipped, tally, stderr,
                   issues, report, export, sarif_file, exit_code>>
    /\ UNCHANGED <<MainFrame, scanned>>

\* main of fix_smells.py: "smells = filter_smells(...)", then
\* "if not smells: print('No smells match the given filters.'); sys.exit(0)"
main_filter ==
    /\ pc = "main_filter"
    /\ smells' = filter_smells(smells, argv.filters)
    /\ Done("filter")
    /\ IF smells' = <<>>
       THEN Exit(0)
       ELSE pc' = "main_summary" /\ UNCHANGED exit_code
    /\ UNCHANGED <<RULE_PRIORITY, planOut, attempts, fixed, skipped, tally, stderr,
                   issues, report, export, sarif_file>>
    /\ UNCHANGED <<MainFrame, scanned>>

\* main of fix_smells.py: "if args.summary: report_summary(smells)"
main_summary ==
    /\ pc = "main_summary"
    /\ IF SummarySelected(argv) THEN Done("summary") ELSE UNCHANGED trace
    /\ pc' = "main_detail"
    /\ UNCHANGED <<RULE_PRIORITY, smells, planOut, attempts, fixed, skipped, tally,
                   stderr, issues, report, export, sarif_file, exit_code>>
    /\ UNCHANGED <<MainFrame, scanned>>

\* main of fix_smells.py: "if args.detail: report_detail(smells)"
main_detail ==
    /\ pc = "main_detail"
    /\ IF argv.detail THEN Done("detail") ELSE UNCHANGED trace
    /\ pc' = "main_plan"
    /\ UNCHANGED <<RULE_PRIORITY, smells, planOut, attempts, fixed, skipped, tally,
                   stderr, issues, report, export, sarif_file, exit_code>>
    /\ UNCHANGED <<MainFrame, scanned>>

\* main of fix_smells.py: "if args.plan: report_plan(smells)"
main_plan ==
    /\ pc = "main_plan"
    /\ IF argv.plan
       THEN planOut' = ReportPlan(smells) /\ Done("plan")
       ELSE UNCHANGED <<planOut, trace>>
    /\ pc' = "main_fix"
    /\ UNCHANGED <<RULE_PRIORITY, smells, attempts, fixed, skipped, tally, stderr,
                   issues, report, export, sarif_file, exit_code>>
    /\ UNCHANGED <<MainFrame, scanned>>

\* apply_fixes: the loop over the sorted fixable smells; tools[i] is what
\* ast-grep does when iteration i runs it
RECURSIVE RunFixes(_, _, _)
RunFixes(q, tools, acc) ==
    IF q = <<>> THEN acc
    ELSE LET smell == Head(q)
             st == get_strategy(rule_short(smell))
             tool == IF InvokesTool(st, smell) THEN Head(tools) ELSE "none"
             ok == tool # "none" /\ RunAstGrepResult(tool)
         IN  RunFixes(Tail(q), Tail(tools),
                      [fixed |-> acc.fixed + (IF ok THEN 1 ELSE 0),
                       skipped |-> acc.skipped + (IF ok THEN 0 ELSE 1),
                       attempts |-> Append(acc.attempts, Attempt(smell, tool, ok)),
                       stderr |-> IF tool = "none" THEN acc.stderr
                                  ELSE Append(acc.stderr, RunAstGrepMessage(tool))])

\* faulty variant of main_fix: the smells handed to the fix loop leave the list
main_fix_DropsAttempted ==
    /\ pc = "main_fix"
    /\ IF argv.fix
       THEN \E tools \in [1..Len(FixQueue(smells)) -> ToolOutcomes] :
              LET nfix == Len(SelectSeq(smells, IsFixable))
                  res == RunFixes(FixQueue(smells), tools,
                                  [fixed |-> 0, skipped |-> 0, attempts |-> <<>>,
                                   stderr |-> stderr])
              IN  /\ attempts' = res.attempts
                  /\ fixed' = res.fixed
                  /\ skipped' = res.skipped
                  /\ stderr' = res.stderr
                  /\ tally' = [nfix |-> nfix, total |-> Len(smells),
                               fixed |-> res.fixed, skipped |-> res.skipped,
                               manual |-> Len(smells) - nfix]
                  /\ Done("fix")
                  /\ smells' = SelectSeq(smells, LAMBDA s : ~IsFixable(s))
       ELSE UNCHANGED <<smells, attempts, fixed, skipped, tally, stderr, trace>>
    /\ pc' = "main_json"
    /\ UNCHANGED <<RULE_PRIORITY, planOut, issues, report, export, sarif_file,
                   exit_code>>
    /\ UNCHANGED <<MainFrame, scanned>>

\* main of fix_smells.py: "if args.fix: apply_fixes(smells, root)"
main_fix ==
    /\ pc = "main_fix"
    /\ IF argv.fix
       THEN \E tools \in [1..Len(FixQueue(smells)) -> ToolOutcomes] :
              LET nfix == Len(SelectSeq(smells, IsFixable))
                  res == RunFixes(FixQueue(smells), tools,
                                  [fixed |-> 0, skipped |-> 0, attempts |-> <<>>,
                                   stderr |-> stderr])
              IN  /\ attempts' = res.attempts
                  /\ fixed' = res.fixed
                  /\ skipped' = res.skipped
                  /\ stderr' = res.stderr
                  /\ tally' = [nfix |-> nfix, total |-> Len(smells),
                               fixed |-> res.fixed, skipped |-> res.skipped,
                               manual |-> Len(smells) - nfix]
                  /\ Done("fix")
       ELSE UNCHANGED <<attempts, fixed, skipped, tally, stderr, trace>>
    /\ pc' = "main_json"
    /\ UNCHANGED <<RULE_PRIORITY, smells, planOut, issues, report, export, sarif_file,
                   exit_code>>
    /\ UNCHANGED <<MainFrame, scanned>>

\* main of fix_smells.py: "if args.json: report_json(smells)"
main_json ==
    /\ pc = "main_json"
    /\ IF argv.json
       THEN export' = ReportJson(smells) /\ Done("json")
       ELSE UNCHANGED <<export, trace>>
    /\ pc' = "main_markdown"
    /\ UNCHANGED <<RULE_PRIORITY, smells, planOut, attempts, fixed, skipped, tally,
                   stderr, issues, report, sarif_file, exit_code>>
    /\ UNCHANGED <<MainFrame, scanned>>

\* main of fix_smells.py: "if args.markdown: report_markdown(...)", then the
\* return of main: the process exits with status 0
main_markdown ==
    /\ pc = "main_markdown"
    /\ IF argv.markdown
       THEN /\ stderr' = Append(stderr, <<"ok", "Markdown written">>)
            /\ Done("markdown")
       ELSE UNCHANGED <<stderr, trace>>
    /\ Exit(0)
    /\ UNCHANGED <<RULE_PRIORITY, smells, planOut, attempts, fixed, skipped, tally,
                   issues, report, export, sarif_file>>
    /\ UNCHANGED <<MainFrame, scanned>>

\* the parser of qlty/main.py: the fields of args read by a run with --smells
QltyMainArgs(scan, filters, summary_only) ==
    [cli |-> "qlty", scan |-> scan, filters |-> filters,
     summary_only |-> summary_only]

\* the parser of analyze_qlty.py: the fields of args read by a run with
\* --smells; markdown_ok tells whether the path given to --markdown passes
\* _validate_markdown_output_path
AnalyzeQltyArgs(scan, filters, outputs, markdown_ok) ==
    [cli |-> "analyze_qlty", scan |-> scan, filters |-> filters,
     summary |-> "summary" \in outputs, markdown |-> "markdown" \in outputs,
     json |-> "json" \in outputs, markdown_ok |-> markdown_ok]

\* _collect_smells_issues of qlty/main.py and analyze_qlty.py, with
\* run_qlty_smells of qlty/runner.py and of analyze_qlty.py: the file is read
\* when it exists and --scan is not given; the scanner's text is written to
\* the file before parse_sarif_file reads it back
qlty_collect ==
    /\ pc = "qlty_collect"
    /\ IF sarif_file.exists /\ ~argv.scan
       THEN IF sarif_file.valid
            THEN /\ issues' = ParseSarifFile(sarif_file.data)
                 /\ Done("parse")
                 /\ pc' = "qlty_collected"
                 /\ UNCHANGED <<stderr, sarif_file, scanned, exit_code>>
            ELSE /\ stderr' = Append(stderr, <<"traceback", "parse_sarif_file">>)
                 /\ Exit(1)
                 /\ UNCHANGED <<issues, sarif_file, scanned, trace>>
       ELSE IF argv.scan
       THEN \E run \in ScanRuns :
              /\ scanned' = run
              /\ CASE run.outcome \in {"notfound", "timeout"} ->
                     /\ stderr' = Append(stderr, <<"error", "running qlty smells">>)
                     /\ pc' = "qlty_collected"
                     /\ UNCHANGED <<issues, sarif_file, trace, exit_code>>
                [] run.outcome = "empty" ->
                     /\ pc' = "qlty_collected"
                     /\ UNCHANGED <<issues, stderr, sarif_file, trace, exit_code>>
                [] run.outcome = "malformed" ->
                     /\ sarif_file' = MalformedFile
                     /\ Done("scan:written")
                     /\ UNCHANGED issues
                     /\ IF argv.cli = "qlty"
                        THEN /\ stderr' = Append(stderr,
                                                 <<"traceback", "parse_sarif_file">>)
                             /\ Exit(1)
                        ELSE /\ stderr' = Append(stderr,
                                                 <<"error", "running qlty smells">>)
                             /\ pc' = "qlty_collected"
                             /\ UNCHANGED exit_code
                [] run.outcome = "json" ->
                     /\ sarif_file' = FileWith(run.data)
                     /\ issues' = ParseSarifFile(run.data)
                     /\ trace' = trace \o <<"scan:written", "scan:validated",
                                            "parse", "scan">>
                     /\ pc' = "qlty_collected"
                     /\ UNCHANGED <<stderr, exit_code>>
       ELSE /\ stderr' = Append(stderr, <<"warn", "Smells file not found">>)
            /\ pc' = "qlty_collected"
            /\ UNCHANGED <<issues, sarif_file, scanned, trace, exit_code>>
    /\ UNCHANGED <<RULE_PRIORITY, smells, planOut, attempts, fixed, skipped, tally,
                   report, export>>
    /\ UNCHANGED MainFrame

\* main of qlty/main.py: "if not all_issues: ... return 0";
\* main of analyze_qlty.py: "if not all_issues: ... return 1"
qlty_no_issues ==
    /\ pc = "qlty_collected"
    /\ IF issues = <<>>
       THEN /\ Exit(IF argv.cli = "qlty" THEN 0 ELSE 1)
            /\ stderr' = IF argv.cli = "qlty" THEN stderr
                         ELSE Append(stderr, <<"error", "No issues found">>)
       ELSE /\ pc' = "qlty_filter"
            /\ UNCHANGED <<stderr, exit_code>>
    /\ UNCHANGED <<RULE_PRIORITY, smells, planOut, attempts, fixed, skipped, tally,
                   issues, report, export, sarif_file, trace>>
    /\ UNCHANGED <<MainFrame, scanned>>

\* main of qlty/main.py: the seven filters, then "if not filtered: ... return 0";
\* main of analyze_qlty.py: _apply_all_filters
qlty_filter ==
    /\ pc = "qlty_filter"
    /\ issues' = apply_filters(argv.filters, issues)
    /\ Done("filter")
    /\ IF argv.cli = "qlty" /\ issues' = <<>>
       THEN Exit(0)
       ELSE pc' = "qlty_analyze" /\ UNCHANGED exit_code
    /\ UNCHANGED <<RULE_PRIORITY, smells, planOut, attempts, fixed, skipped, tally,
                   stderr, report, export, sarif_file>>
    /\ UNCHANGED <<MainFrame, scanned>>

\* main of both programs: "report = analyze_issues(filtered)"
qlty_analyze ==
    /\ pc = "qlty_analyze"
    /\ report' = AnalyzeIssues(issues)
    /\ Done("analyze")
    /\ pc' = "qlty_output"
    /\ UNCHANGED <<RULE_PRIORITY, smells, planOut, attempts, fixed, skipped, tally,
                   stderr, issues, export, sarif_file, exit_code>>
    /\ UNCHANGED <<MainFrame, scanned>>

\* main of qlty/main.py: the summary, the markdown report unless
\* --summary-only, "return 0"
qlty_report ==
    /\ pc = "qlty_output"
    /\ argv.cli = "qlty"
    /\ trace' = trace \o <<"summary">>
                      \o (IF argv.summary_only THEN <<>> ELSE <<"markdown">>)
    /\ Exit(0)
    /\ UNCHANGED <<RULE_PRIORITY, smells, planOut, attempts, fixed, skipped, tally,
                   stderr, issues, report, export, sarif_file>>
    /\ UNCHANGED <<MainFrame, scanned>>

\* _generate_outputs of analyze_qlty.py, then "return 0"; a markdown path that
\* fails validation ends the process with SystemExit(2) before the JSON export
_generate_outputs ==
    /\ pc = "qlty_output"
    /\ argv.cli = "analyze_qlty"
    /\ LET summary == IF argv.summary THEN <<"summary">> ELSE <<>>
       IN  IF argv.markdown /\ ~argv.markdown_ok
           THEN /\ trace' = trace \o summary
                /\ stderr' = Append(stderr, <<"error", "markdown path">>)
                /\ Exit(2)
                /\ UNCHANGED export
           ELSE /\ trace' = trace \o summary
                              \o (IF argv.markdown THEN <<"markdown">> ELSE <<>>)
                              \o (IF argv.json THEN <<"json">> ELSE <<>>)
                /\ export' = IF argv.json THEN AnalysisJson(report, issues)
                             ELSE export
                /\ Exit(0)
                /\ UNCHANGED stderr
    /\ UNCHANGED <<RULE_PRIORITY, smells, planOut, attempts, fixed, skipped, tally,
                   issues, report, sarif_file>>
    /\ UNCHANGED <<MainFrame, scanned>>

\* the filters given on the command line of fix_smells.py
MainSmellFilters == { NoFilters, [NoFilters EXCEPT !.language_filter = "rust"] }

\* the filters given on the command line of the qlty programs
MainQltyFilters == { NoQltyArgs, [NoQltyArgs EXCEPT !.severity = "warning"] }

\* the findings file before the run
MainSarifFiles == {NoDocument, MalformedFile} \cup {FileWith(d) : d \in MainDocuments}

\* the file named by --config before the run
MainConfigFiles ==
    {NoDocument, MalformedFile}
    \cup {FileWith(cfg) : cfg \in Configs}
    \cup {FileWith(<<Override(todo, "urgent"), Override(boolean_logic, "high")>>)}

\* the command lines of the model
MainArgs ==
    { FixSmellsArgs(config, scan, filters, actions) :
          config \in BOOLEAN, scan \in BOOLEAN, filters \in MainSmellFilters,
          actions \in SUBSET ActionFlags }
    \cup { QltyMainArgs(scan, filters, summary_only) :
               scan \in BOOLEAN, filters \in MainQltyFilters,
               summary_only \in BOOLEAN }
    \cup { AnalyzeQltyArgs(scan, filters, outputs, markdown_ok) :
               scan \in BOOLEAN, filters \in MainQltyFilters,
               outputs \in SUBSET {"summary", "markdown", "json"},
               markdown_ok \in BOOLEAN }

MainInit ==
    /\ RULE_PRIORITY = DefaultRulePriority
    /\ STRATEGY_REGISTRY = BuiltinRegistry
    /\ registered = 0
    /\ argv \in MainArgs
    /\ sarif_file \in MainSarifFiles
    /\ IF argv.cli = "fix_smells" /\ argv.config
       THEN config_file \in MainConfigFiles
       ELSE config_file = NoDocument
    /\ IF argv.cli = "fix_smells" /\ argv.fix
       THEN ast_grep_installed \in BOOLEAN
       ELSE ast_grep_installed = FALSE
    /\ pc = IF argv.cli = "fix_smells" THEN "main_config" ELSE "qlty_collect"
    /\ smells = <<>>
    /\ planOut = <<>>
    /\ queue = <<>>
    /\ attempts = <<>>
    /\ fixed = 0
    /\ skipped = 0
    /\ tally = NoTally
    /\ stderr = <<>>
    /\ issues = <<>>
    /\ report = NoReport
    /\ resAB = <<>>
    /\ resBA = <<>>
    /\ doc = NoDocument
    /\ export = <<>>
    /\ scanned = NoScan
    /\ trace = <<>>
    /\ exit_code = None

MainNext ==
    \/ main_load_config
    \/ main_scan
    \/ main_parse
    \/ main_filter
    \/ main_summary
    \/ main_detail
    \/ main_plan
    \/ main_fix
    \/ main_json
    \/ main_markdown
    \/ qlty_collect
    \/ qlty_no_issues
    \/ qlty_filter
    \/ qlty_analyze
    \/ qlty_report
    \/ _generate_outputs

MainSpec == MainInit /\ [][MainNext]_vars

\* ------------------------------------------------------------------
\* Helpers of the properties
\* ------------------------------------------------------------------

\* how often x occurs in sequence s
Occurrences(s, x) == Cardinality({i \in 1..Len(s) : s[i] = x})

\* <= on file paths
StrLessEq(a, b) == a = b \/ StrLess(a, b)

\* ------------------------------------------------------------------
\* C1, C2: analyze_issues and the filters
\* ------------------------------------------------------------------

RECURSIVE CounterTotal(_)
CounterTotal(c) == IF c = <<>> THEN 0 ELSE Head(c).n + CounterTotal(Tail(c))

\* counter c holds each key of keys once, with the number of its occurrences
CountsEachOnce(c, keys) ==
    /\ \A i, j \in 1..Len(c) : c[i].key = c[j].key => i = j
    /\ \A i \in 1..Len(keys) : \E j \in 1..Len(c) : c[j].key = keys[i]
    /\ \A j \in 1..Len(c) :
           c[j].n = Cardinality({i \in 1..Len(keys) : keys[i] = c[j].key})

\* C1: after analyze_issues, total_issues is the length of the issue list,
\* and the counts of by_severity, by_rule, by_category and by_file each sum
\* to total_issues, every issue counted exactly once in each of them
C1_PartitionsSumToTotal ==
    pc = "analyzed" =>
        /\ report.total_issues = Len(issues)
        /\ CounterTotal(report.by_severity) = report.total_issues
        /\ CounterTotal(report.by_rule) = report.total_issues
        /\ CounterTotal(report.by_category) = report.total_issues
        /\ CounterTotal(report.by_file) = report.total_issues
        /\ CountsEachOnce(report.by_severity,
                          [i \in 1..Len(issues) |-> issues[i].level])
        /\ CountsEachOnce(report.by_rule,
                          [i \in 1..Len(issues) |-> issues[i].rule_id])
        /\ CountsEachOnce(report.by_category,
                          [i \in 1..Len(issues) |-> rule_category(issues[i])])
        /\ CountsEachOnce(report.by_file,
                          [i \in 1..Len(issues) |-> issues[i].file_path])

\* two issues of different rules in one file have been analysed: one file
\* entry of count two, two rule entries of count one
C1_Witness ==
    /\ pc = "analyzed"
    /\ Len(issues) = 2
    /\ issues[1].rule_id # issues[2].rule_id
    /\ issues[1].file_path = issues[2].file_path
    /\ Len(report.by_file) = 1
    /\ Len(report.by_rule) = 2

\* C2: for every issue list and every two filter settings A and B, of
\* filter_smells or of the qlty CLI, applying A then B yields the same issue
\* sequence as applying B then A
C2_FiltersCommute ==
    pc = "filtered_twice" => resAB.out = resBA.out

\* a rule filter and a file filter, each dropping an issue the other keeps,
\* have been applied in both orders
C2_Witness ==
    /\ pc = "filtered_twice"
    /\ resAB.input = "smells"
    /\ resAB.first.rule_filter # <<>>
    /\ resAB.second.file_filter # <<>>
    /\ Len(smells) = 2
    /\ filter_smells(smells, resAB.first) = <<smells[1]>>
    /\ filter_smells(smells, resAB.second) = <<smells[2]>>
    /\ smells[1] # smells[2]
    /\ resAB.out = <<>>
    /\ resBA.out = <<>>

\* ------------------------------------------------------------------
\* C11, C12: the parsers
\* ------------------------------------------------------------------

\* the result has an entry in "locations"
HasLocations(result) == Get(result, "locations", <<>>) # <<>>

\* the first entry of "locations": its uri ("" when absent) and its region
FirstUri(result) ==
    Get(Get(Get(result.locations[1], "physicalLocation", EmptyDict),
            "artifactLocation", EmptyDict), "uri", <<>>)

FirstRegion(result) ==
    Get(Get(result.locations[1], "physicalLocation", EmptyDict), "region", EmptyDict)

\* C11: parsing raises no error and produces no issue for a result without a
\* locations entry, so a document whose results all lack locations parses to
\* the empty list; the issues produced are, in document order, those of the
\* results that have one (fix_smells.py: and a uri in it), each with the file
\* and start line of its first listed location.
C11_ResultsWithoutLocationDropped ==
    /\ pc = "parsed" =>
           LET rs == SelectSeq(AllResults(doc),
                               LAMBDA r : HasLocations(r) /\ FirstUri(r) # <<>>)
           IN  /\ Len(smells) = Len(rs)
               /\ \A i \in 1..Len(rs) :
                      /\ smells[i].location.uri = FirstUri(rs[i])
                      /\ smells[i].location.start_line = FirstRegion(rs[i]).startLine
                      /\ smells[i].rule_id = Get(rs[i], "ruleId", <<>>)
               /\ (\A r \in Range(AllResults(doc)) : ~HasLocations(r)) => smells = <<>>
    /\ pc = "parsed_file" =>
           LET rs == SelectSeq(AllResults(doc), HasLocations)
           IN  /\ Len(issues) = Len(rs)
               /\ \A i \in 1..Len(rs) :
                      /\ issues[i].file_path =
                             (IF FirstUri(rs[i]) = <<>> THEN <<"unknown">>
                              ELSE FirstUri(rs[i]))
                      /\ issues[i].start_line = FirstRegion(rs[i]).startLine
                      /\ issues[i].rule_id = Get(rs[i], "ruleId", <<"unknown">>)
               /\ (\A r \in Range(AllResults(doc)) : ~HasLocations(r)) => issues = <<>>

\* a document with a result without locations and a result with two locations
\* has been parsed to one issue, located at the first of the two
C11_Witness ==
    /\ pc = "parsed"
    /\ Len(AllResults(doc)) = 2
    /\ ~HasLocations(AllResults(doc)[1])
    /\ HasLocations(AllResults(doc)[2])
    /\ Len(AllResults(doc)[2].locations) = 2
    /\ Len(smells) = 1
    /\ smells[1].location.uri = a_py

\* the document gives no end line for the result
NoEndLine(result) == "endLine" \notin DOMAIN FirstRegion(result)

\* C12 as stated: every parsed location has start line <= end line, and the
\* end line equals the start line when the document gives no end line.
C12_EndLineDefaultsToStart ==
    /\ pc = "parsed" =>
           LET rs == SelectSeq(AllResults(doc),
                               LAMBDA r : HasLocations(r) /\ FirstUri(r) # <<>>)
           IN  \A i \in 1..Len(smells) :
                   /\ smells[i].location.start_line <= smells[i].location.end_line
                   /\ NoEndLine(rs[i]) =>
                          smells[i].location.end_line = smells[i].location.start_line
    /\ pc = "parsed_file" =>
           LET rs == SelectSeq(AllResults(doc), HasLocations)
           IN  \A i \in 1..Len(issues) :
                   /\ issues[i].start_line <= issues[i].end_line
                   /\ NoEndLine(rs[i]) => issues[i].end_line = issues[i].start_line

\* what holds of C12: parse_sarif_file gives a result without end line the
\* start line as its end line; parse_sarif gives it the end line 0.
C12_EndLineDefaults ==
    /\ pc = "parsed" =>
           LET rs == SelectSeq(AllResults(doc),
                               LAMBDA r : HasLocations(r) /\ FirstUri(r) # <<>>)
           IN  \A i \in 1..Len(smells) :
                   smells[i].location.end_line = Get(FirstRegion(rs[i]), "endLine", 0)
    /\ pc = "parsed_file" =>
           LET rs == SelectSeq(AllResults(doc), HasLocations)
           IN  \A i \in 1..Len(issues) :
                   issues[i].end_line =
                       Get(FirstRegion(rs[i]), "endLine", issues[i].start_line)

\* parse_sarif has parsed a result with start line 5 and no end line
C12_Witness ==
    /\ pc = "parsed"
    /\ \E i \in 1..Len(smells) :
           /\ smells[i].location.start_line = 5
           /\ smells[i].location.end_line = 0

\* ------------------------------------------------------------------
\* C16: one call of the filters
\* ------------------------------------------------------------------

\* the smell satisfies every predicate the arguments supply (a priority name
\* that names no tier supplies none)
KeepsSmell(s, args) ==
    /\ args.file_filter # <<>> => StrContains(args.file_filter, s.location.uri)
    /\ args.rule_filter # <<>> => StrContains(args.rule_filter, rule_short(s))
    /\ args.module_filter # <<>> =>
           StrContains(args.module_filter, module_name(s.location))
    /\ args.language_filter # "" =>
           detected_language(s.location) = Lower(args.language_filter)
    /\ args.priority_filter # "" /\ IsPriorityName(Upper(args.priority_filter)) =>
           priority(s) = PriorityNamed(Upper(args.priority_filter))
    /\ args.min_severity # None => severity_score(s) >= args.min_severity

\* the issue satisfies every positive predicate the arguments supply and
\* matches none of their exclusion patterns
KeepsIssue(i, args) ==
    /\ args.severity # "" => i.level = from_str(args.severity)
    /\ args.rule # <<>> => StrContains(args.rule, i.rule_id)
    /\ args.category # <<>> => StrContains(args.category, rule_category(i))
    /\ args.file # <<>> => fnmatch(i.file_path, args.file)
    /\ \A r \in Range(args.exclude_rule) : ~StrContains(r, i.rule_id)
    /\ \A c \in Range(args.exclude_category) : ~StrContains(c, rule_category(i))
    /\ \A f \in Range(args.exclude_file) : ~fnmatch(i.file_path, f)

\* the result of the call holds, in input order, exactly the kept entries of
\* the input, and the input is as it was before the call
FilterSelects ==
    IF resAB.input = "smells"
    THEN /\ resAB.out = SelectSeq(smells, LAMBDA s : KeepsSmell(s, resAB.args))
         /\ smells = resAB.before
    ELSE /\ resAB.out = SelectSeq(issues, LAMBDA i : KeepsIssue(i, resAB.args))
         /\ issues = resAB.before

\* the arguments supply no filter
NoFilterSupplied ==
    IF resAB.input = "smells"
    THEN \A k \in DOMAIN NoFilters :
             \/ resAB.args[k] = NoFilters[k]
             \/ k = "priority_filter" /\ ~IsPriorityName(Upper(resAB.args[k]))
    ELSE resAB.args = NoQltyArgs

\* C16 as stated: the filters return exactly the issues of the input that
\* satisfy every supplied positive predicate and match no exclusion pattern,
\* in input order; the input is not modified and the result is a new sequence,
\* never the input sequence itself.
C16_FilterReturnsNewSequence ==
    pc = "filter_called" => FilterSelects /\ ~resAB.returns_input

\* C16, what holds: the same selection, order and unmodified input; the result
\* is a new sequence when at least one filter is supplied, and the input
\* sequence itself when none is.
C16_FilterSelectsInOrder ==
    pc = "filter_called" =>
        /\ FilterSelects
        /\ resAB.returns_input <=> NoFilterSupplied

\* a call with two filters has dropped some entries of a two-entry input and
\* kept another
C16_Witness ==
    /\ pc = "filter_called"
    /\ resAB.input = "smells"
    /\ Cardinality(DOMAIN resAB.args \ {k \in DOMAIN resAB.args :
                                           resAB.args[k] = NoFilters[k]}) = 2
    /\ Len(resAB.before) = 2
    /\ Len(resAB.out) = 1
    /\ ~resAB.returns_input

\* ------------------------------------------------------------------
\* C13, C14, C15: a run from the command line
\* ------------------------------------------------------------------

Exited == pc = "exited"

\* the run ended in an exception that nothing caught
Crashed == \E i \in 1..Len(stderr) : stderr[i][1] = "traceback"

\* a summary, a report, a plan, a fix run or an export was made
ReportStages == {"summary", "detail", "plan", "fix", "json", "markdown"}

Reported == \E i \in 1..Len(trace) : trace[i] \in ReportStages

\* the run read its findings and there was no issue in them
NoIssuesFound ==
    /\ ~Crashed
    /\ IF argv.cli = "fix_smells"
       THEN "parse" \in Range(trace) /\ ParseSarif(sarif_file.data) = <<>>
       ELSE issues = <<>> /\ "filter" \notin Range(trace)

\* the run was to read a findings file that does not exist
FindingsFileMissing == ~argv.scan /\ ~sarif_file.exists

\* C13: a run that analysed and reported issues exits with 0; a run that
\* found no issues to analyse, or whose findings file is missing, exits with
\* 1; a run that ends in a configuration or parse error exits with a
\* non-zero status.
C13_ExitCodes ==
    Exited =>
        /\ Reported /\ ~Crashed => exit_code = 0
        /\ NoIssuesFound \/ FindingsFileMissing => exit_code = 1
        /\ Crashed => exit_code # 0

\* what the three programs do: fix_smells.py exits with 1 only for a missing
\* file, a failed scan or an uncaught exception; qlty/main.py returns 0 unless
\* an exception escapes; analyze_qlty.py returns 1 when it collected nothing
C13_ExitCodesByProgram ==
    Exited =>
        /\ Reported /\ ~Crashed /\ exit_code # 2 => exit_code = 0
        /\ Crashed => exit_code = 1
        /\ argv.cli = "fix_smells" /\ NoIssuesFound => exit_code = 0
        /\ argv.cli = "fix_smells" /\ FindingsFileMissing /\ ~Crashed => exit_code = 1
        /\ argv.cli = "qlty" /\ ~Crashed => exit_code = 0
        /\ argv.cli = "analyze_qlty" /\ (NoIssuesFound \/ FindingsFileMissing)
               => exit_code = 1

\* fix_smells.py has parsed a findings file whose results all lack a location
\* and has exited with 0
C13_Witness ==
    /\ Exited
    /\ argv.cli = "fix_smells"
    /\ sarif_file = FileWith(SarifDocument(<<NoLocationsResult>>))
    /\ NoIssuesFound
    /\ exit_code = 0

\* the place of the first occurrence of an entry in trace, 0 when it has none
TracePos(entry) ==
    IF entry \in Range(trace)
    THEN CHOOSE i \in 1..Len(trace) :
             trace[i] = entry /\ \A j \in 1..(i - 1) : trace[j] # entry
    ELSE 0

\* the scans that gave no usable findings
ScanFailures == {"notfound", "timeout", "empty", "malformed"}

\* after a scan: a failed scan has ended the run with a non-zero status, and
\* the file was written after the text was validated and before the parse
ScanContract ==
    /\ scanned.outcome \in ScanFailures => Exited /\ exit_code # 0
    /\ "scan:written" \in Range(trace) =>
           /\ 0 < TracePos("scan:validated")
           /\ TracePos("scan:validated") < TracePos("scan:written")
           /\ "parse" \in Range(trace) => TracePos("scan:written") < TracePos("parse")

\* a step in which a scan fails leaves the findings file as it was
FailedScanKeepsFile ==
    scanned' # scanned /\ scanned'.outcome \in ScanFailures => sarif_file' = sarif_file

\* C14: when a scan is requested, empty output is fatal, the output is
\* validated as JSON before it is written to the findings file and written
\* before it is parsed, and a scan that fails (no binary, timeout, empty or
\* malformed output) aborts the run and leaves the findings file unwritten.
C14_ScanValidatedThenWritten ==
    /\ [](scanned # NoScan => ScanContract)
    /\ [][FailedScanKeepsFile]_vars

\* run_qlty_smells of fix_smells.py keeps the contract
C14_ScanOfFixSmells ==
    /\ [](argv.cli = "fix_smells" /\ scanned # NoScan => ScanContract)
    /\ [][argv.cli = "fix_smells" => FailedScanKeepsFile]_vars

\* qlty/main.py --scan: the scanner printed text that is not JSON, the text is
\* in the findings file and the run has ended in the parser
C14_Witness ==
    /\ Exited
    /\ argv.cli = "qlty"
    /\ scanned.outcome = "malformed"
    /\ sarif_file = MalformedFile
    /\ trace = <<"scan:written">>

\* the stages of main of fix_smells.py in the order of its source
StageOrder ==
    <<"load_config", "scan", "parse", "filter", "summary", "detail", "plan", "fix",
      "json", "markdown">>

StageRank(stage) == CHOOSE i \in 1..Len(StageOrder) : StageOrder[i] = stage

\* the stages completed so far, without the steps inside the scan
Stages == SelectSeq(trace, LAMBDA e : e \in Range(StageOrder))

\* the action is selected on the command line
Selected(action) ==
    CASE action = "summary" -> SummarySelected(argv)
      [] action = "detail" -> argv.detail
      [] action = "plan" -> argv.plan
      [] action = "fix" -> argv.fix
      [] action = "json" -> argv.json
      [] action = "markdown" -> argv.markdown

\* C15: a run of fix_smells.py completes its stages in the order load-config,
\* scan, parse, filter, summary, detail, plan, fix, structured export,
\* markdown export, each at most once; load-config and scan run only when
\* asked for and then before the parse; an action runs only when it is
\* selected, after the parse and the filter have completed and with a
\* non-empty filtered set; a run that ends normally with issues has run every
\* selected action.
C15_StagesInOrder ==
    argv.cli = "fix_smells" =>
        /\ \A i, j \in 1..Len(Stages) :
               i < j => StageRank(Stages[i]) < StageRank(Stages[j])
        /\ "load_config" \in Range(Stages) => argv.config
        /\ "scan" \in Range(Stages) => argv.scan
        /\ "parse" \in Range(Stages) =>
               /\ argv.config => "load_config" \in Range(Stages)
               /\ argv.scan => "scan" \in Range(Stages)
        /\ "filter" \in Range(Stages) => "parse" \in Range(Stages)
        /\ \A a \in ActionFlags :
               a \in Range(Stages) =>
                   /\ Selected(a)
                   /\ "parse" \in Range(Stages)
                   /\ "filter" \in Range(Stages)
                   /\ smells # <<>>
        /\ Exited /\ exit_code = 0 /\ smells # <<>> =>
               \A a \in ActionFlags : Selected(a) => a \in Range(Stages)

\* a run with --config, --scan and all six actions has ended: every stage ran,
\* in order
C15_Witness ==
    /\ Exited
    /\ argv.cli = "fix_smells"
    /\ exit_code = 0
    /\ Stages = StageOrder

\* ------------------------------------------------------------------
\* C17: load_config and an unknown tier name
\* ------------------------------------------------------------------

\* the items of the configuration file that load_config has read
ConfigItems == config_file.data

UnknownTier(it) == ~IsPriorityName(Upper(it.prio_name))

\* C17: an override that names an unknown tier gives a warning and does not
\* end the run; the entry of its rule in the priority table stays as it was;
\* the valid overrides of the same file, before and after it, are applied.
C17_UnknownTierWarns ==
    /\ argv.cli = "fix_smells" /\ argv.config /\ config_file.exists
         /\ config_file.valid /\ pc # "main_config"
           => /\ "load_config" \in Range(trace)
              /\ <<"traceback", "load_config">> \notin Range(stderr)
    /\ "load_config" \in Range(trace) =>
           \A k \in 1..Len(ConfigItems) :
               LET it == ConfigItems[k]
               IN  IF UnknownTier(it)
                   THEN /\ <<"warn", "Unknown priority", it.prio_name, it.rule>>
                               \in Range(stderr)
                        /\ IF it.rule \in DOMAIN DefaultRulePriority
                           THEN /\ it.rule \in DOMAIN RULE_PRIORITY
                                /\ RULE_PRIORITY[it.rule] = DefaultRulePriority[it.rule]
                           ELSE it.rule \notin DOMAIN RULE_PRIORITY
                   ELSE /\ it.rule \in DOMAIN RULE_PRIORITY
                        /\ RULE_PRIORITY[it.rule] = PriorityNamed(Upper(it.prio_name))

\* a file whose first override names the unknown tier "urgent" has been
\* loaded: the run goes on, the warning is out, the second override is applied
C17_Witness ==
    /\ "load_config" \in Range(trace)
    /\ "filter" \in Range(trace)
    /\ Len(ConfigItems) = 2
    /\ UnknownTier(ConfigItems[1])
    /\ ConfigItems[1].rule \in DOMAIN DefaultRulePriority
    /\ ~UnknownTier(ConfigItems[2])
    /\ RULE_PRIORITY[ConfigItems[2].rule] # DefaultRulePriority[ConfigItems[2].rule]

\* ------------------------------------------------------------------
\* C18: the order of the structured export
\* ------------------------------------------------------------------

\* C18: report_json writes one record per issue, by descending severity
\* score, records of equal score by ascending file path.
C18_ExportOrder ==
    pc = "exported" =>
        /\ Len(export) = Len(smells)
        /\ \A s \in Range(smells) :
               Occurrences(export, JsonRecord(s))
                   = Cardinality({i \in 1..Len(smells) :
                                      JsonRecord(smells[i]) = JsonRecord(s)})
        /\ \A i, j \in 1..Len(export) :
               i < j =>
                   \/ export[i].severity_score > export[j].severity_score
                   \/ /\ export[i].severity_score = export[j].severity_score
                      /\ StrLessEq(export[i].file, export[j].file)

\* two issues of equal score were exported in the order of their paths, the
\* reverse of their order in the input
C18_Witness ==
    /\ pc = "exported"
    /\ Len(export) = 2
    /\ export[1].severity_score = export[2].severity_score
    /\ StrLess(export[1].file, export[2].file)
    /\ smells[1].location.uri = export[2].file

\* ------------------------------------------------------------------
\* C19: counting the exported records back
\* ------------------------------------------------------------------

\* the histogram of a sequence of keys, as a set of (key, count) entries
Histogram(keys) == Range(Populate(<<>>, keys))

\* C19: the number of exported records is the total of the in-memory report
\* of the same issue set, and counting the records by rule gives its per-rule
\* counts: for report_json of fix_smells.py against report_summary, and for
\* the JSON output of analyze_qlty.py (its issue list and the totals written
\* with it) against the AnalysisReport of analyze_issues.
C19_ExportRoundTrip ==
    /\ pc = "exported" =>
           /\ Len(export) = ReportSummary(smells).total
           /\ Histogram([k \in 1..Len(export) |-> export[k].rule])
                  = Range(ReportSummary(smells).by_rule)
    /\ pc = "exported_analysis" =>
           /\ Len(export.issues) = report.total_issues
           /\ export.total = report.total_issues
           /\ Histogram([k \in 1..Len(export.issues) |-> export.issues[k].rule_id])
                  = Range(report.by_rule)
           /\ export.by_rule = report.by_rule

\* two issues whose rule ids differ in the prefix only were exported: two
\* records of one rule, as in the summary
C19_Witness ==
    /\ pc = "exported"
    /\ Len(export) = 2
    /\ smells[1].rule_id # smells[2].rule_id
    /\ export[1].rule = export[2].rule
    /\ ReportSummary(smells).by_rule = <<[key |-> export[1].rule, n |-> 2]>>

\* ------------------------------------------------------------------
\* Properties of the fix_smells.py run
\* ------------------------------------------------------------------

\* the smells attempted so far, in the order of the attempts
Attempted == [i \in 1..Len(attempts) |-> attempts[i].smell]

\* apply_fixes has started in this run
FixStarted == pc = "fixing" \/ (pc = "done" /\ tally.total > 0)

\* apply_fixes has printed its results
FixFinished == pc = "done" /\ tally.total > 0

\* report_plan has run
PlanPrinted == planOut # <<>>

\* p and q hold the same elements, each as often
SameElements(p, q) ==
    /\ Len(p) = Len(q)
    /\ \A x \in Range(p) \cup Range(q) : Occurrences(p, x) = Occurrences(q, x)

\* the smells apply_fixes selected, in the order it attempts them
FixSequence == Attempted \o queue

\* apply_fixes selected exactly the smells whose strategy is auto-fixable
SelectsAutoFixable ==
    FixStarted =>
        /\ SameElements(FixSequence, SelectSeq(smells, IsFixable))
        /\ \A i \in 1..Len(FixSequence) :
               LET r == rule_short(FixSequence[i])
               IN  r \in DOMAIN STRATEGY_REGISTRY /\ STRATEGY_REGISTRY[r].auto_fixable

PlanPair(s) ==
    <<rule_short(s), IF function_name(s) = <<>> THEN <<"file">> ELSE function_name(s)>>

\* the issue lines of the plan: full guidance and cross-references
PlanIssueLines == SelectSeq(planOut, LAMBDA e : e.kind \in {"full", "xref"})

\* C4: in the plan, per file, the first issue (by start line) of a (rule_short,
\* function name) pair gets full guidance, every later one of the pair in that file
\* a cross-reference; the same pair in another file gets full guidance again; the
\* pair uses "file" when the issue has no function name.
C4_PlanDeduplication ==
    PlanPrinted =>
        LET L == PlanIssueLines
        IN  /\ SameElements([i \in 1..Len(L) |-> L[i].smell], smells)
            /\ \A i \in 1..Len(L) :
                   LET earlier == {j \in 1..(i - 1) :
                                      /\ L[j].smell.location.uri = L[i].smell.location.uri
                                      /\ PlanPair(L[j].smell) = PlanPair(L[i].smell)}
                   IN  /\ L[i].kind = "full" <=> earlier = {}
                       /\ L[i].kind = "full" =>
                              L[i].guidance = generate_fix_instruction(L[i].smell)
                       /\ \A j \in earlier :
                              L[j].smell.location.start_line
                                  <= L[i].smell.location.start_line

\* C4 witness: a plan that prints an issue without function name as a
\* cross-reference to an issue whose function is named "file".
C4_Witness ==
    /\ PlanPrinted
    /\ \E i, j \in 1..Len(PlanIssueLines) :
           /\ j < i
           /\ PlanIssueLines[i].kind = "xref"
           /\ PlanIssueLines[j].kind = "full"
           /\ function_name(PlanIssueLines[i].smell) = <<>>
           /\ function_name(PlanIssueLines[j].smell) = <<"file">>

\* the number of attempts made with the given result
AttemptsWith(result) ==
    Cardinality({i \in 1..Len(attempts) : attempts[i].result = result})

\* the fix loop is not stuck: it can take its next iteration or print its results
FixLoopProceeds ==
    pc = "fixing" =>
        IF queue # <<>>
        THEN ENABLED (attempt_fix_no_tool \/ attempt_fix_tool)
        ELSE ENABLED apply_fixes_end

\* C5: a timeout or non-zero exit of the rewrite tool on one issue counts as a
\* failure (skipped) for that issue only; the loop goes on to the next auto-fixable
\* issue, every auto-fixable issue is attempted, and the run reaches its tally.
C5_ToolFailureIsolated ==
    /\ \A i \in 1..Len(attempts) :
           attempts[i].tool \in {"timeout", "nonzero"} => ~attempts[i].result
    /\ FixStarted =>
           /\ fixed = AttemptsWith(TRUE)
           /\ skipped = AttemptsWith(FALSE)
           /\ FixSequence = FixQueue(smells)
    /\ FixLoopProceeds
    /\ FixFinished =>
           /\ Attempted = FixQueue(smells)
           /\ tally.fixed + tally.skipped = Len(SelectSeq(smells, IsFixable))
           /\ tally.fixed = fixed
           /\ tally.skipped = skipped

\* C5 witness: a finished run in which the tool timed out or failed on one issue and
\* a later issue was fixed.
C5_Witness ==
    /\ FixFinished
    /\ \E i, j \in 1..Len(attempts) :
           /\ i < j
           /\ attempts[i].tool \in {"timeout", "nonzero"}
           /\ attempts[j].result
    /\ tally.fixed = 1
    /\ tally.skipped = 1

\* C6 as stated: once an attempt found the rewrite tool missing, no later issue
\* invokes the tool.
C6_NoInvocationAfterMissing ==
    \A i, j \in 1..Len(attempts) :
        (i < j /\ attempts[i].tool = "notfound") => attempts[j].tool = "none"

\* the stderr lines that report a missing tool
MissingToolErrors ==
    Cardinality({i \in 1..Len(stderr) : stderr[i] = <<"error", "ast-grep not found">>})

\* C6 amended: when the rewrite tool is absent, every issue whose fix needs the tool
\* invokes it again, is counted as skipped and logs one error; the loop goes on and
\* the process is not terminated (the run reaches its tally with nothing fixed).
C6_MissingToolSkipsEachIssue ==
    /\ \A i \in 1..Len(attempts) :
           attempts[i].tool = "notfound" => ~attempts[i].result
    /\ (FixStarted /\ ~ast_grep_installed) =>
           /\ \A i \in 1..Len(attempts) :
                  LET s == attempts[i].smell
                  IN  attempts[i].tool =
                          IF InvokesTool(get_strategy(rule_short(s)), s)
                          THEN "notfound"
                          ELSE "none"
           /\ MissingToolErrors =
                  Cardinality({i \in 1..Len(attempts) : attempts[i].tool = "notfound"})
           /\ fixed = 0
           /\ skipped = Len(attempts)
           /\ FixSequence = FixQueue(smells)
    /\ FixLoopProceeds
    /\ (FixFinished /\ ~ast_grep_installed) =>
           /\ tally.fixed = 0
           /\ tally.skipped = Len(SelectSeq(smells, IsFixable))

\* C6 witness: a finished run that found the tool missing for two issues.
C6_Witness ==
    /\ FixFinished
    /\ Len(attempts) = 2
    /\ attempts[1].tool = "notfound"
    /\ attempts[2].tool = "notfound"

\* C7: register_strategy(s) makes get_strategy(s.rule) return s, replacing an earlier
\* built-in or custom entry; the registry grows by one entry only when s.rule was not
\* registered, and every other entry is unchanged.
C7_RegisterReplaces ==
    [][registered' # registered =>
         \E s \in CustomStrategies :
             /\ s.rule \in DOMAIN STRATEGY_REGISTRY'
             /\ STRATEGY_REGISTRY'[s.rule] = s
             /\ DOMAIN STRATEGY_REGISTRY' = DOMAIN STRATEGY_REGISTRY \cup {s.rule}
             /\ Cardinality(DOMAIN STRATEGY_REGISTRY') =
                    Cardinality(DOMAIN STRATEGY_REGISTRY)
                        + (IF s.rule \in DOMAIN STRATEGY_REGISTRY THEN 0 ELSE 1)
             /\ \A r \in DOMAIN STRATEGY_REGISTRY \ {s.rule} :
                    STRATEGY_REGISTRY'[r] = STRATEGY_REGISTRY[r]]_vars

\* C7 witness: after two registrations the registry holds a custom strategy for a
\* new rule next to a custom strategy that replaced a built-in one.
C7_Witness ==
    /\ registered = 2
    /\ todo \in DOMAIN STRATEGY_REGISTRY
    /\ STRATEGY_REGISTRY[nested_control_flow] \in CustomStrategies
    /\ STRATEGY_REGISTRY[boolean_logic] = BooleanLogicStrategy

\* the smells of the run whose rule has no registered strategy
Unregistered == {s \in Range(smells) : rule_short(s) \notin DOMAIN STRATEGY_REGISTRY}

\* C8: an issue whose rule has no registered strategy raises no error: its guidance
\* carries the generic manual instruction and the manual-review banner, and
\* apply_fixes neither selects it nor invokes the rewrite tool for it.
C8_NoStrategyIsManual ==
    \A s \in Unregistered :
        /\ generate_fix_instruction(s).instructions = "Review and refactor manually."
        /\ generate_fix_instruction(s).banner = "Manual review required"
        /\ \A i \in 1..Len(planOut) :
               (planOut[i].kind = "full" /\ planOut[i].smell = s) =>
                   /\ planOut[i].guidance.instructions = "Review and refactor manually."
                   /\ planOut[i].guidance.banner = "Manual review required"
        /\ s \notin Range(queue)
        /\ \A i \in 1..Len(attempts) : attempts[i].smell # s
        /\ FixFinished => tally.manual >= Occurrences(smells, s)

\* C8 witness: a finished run that planned and fixed a list holding an issue without
\* strategy next to an attempted one.
C8_Witness ==
    /\ FixFinished
    /\ PlanPrinted
    /\ Unregistered # {}
    /\ attempts # <<>>

\* C9: priority is defined for every issue, and is INFO when the rule short name is
\* not a key of RULE_PRIORITY; the plan lists such an issue under INFO.
C9_UnknownRuleIsInfo ==
    /\ \A s \in SmellPool :
           /\ priority(s) \in Priority
           /\ rule_short(s) \notin DOMAIN RULE_PRIORITY => priority(s) = INFO
    /\ \A i \in 1..Len(planOut) :
           (/\ planOut[i].kind = "full"
            /\ rule_short(planOut[i].smell) \notin DOMAIN RULE_PRIORITY) =>
               planOut[i].guidance.priority = "INFO"

\* C9 witness: a printed plan for a list with an issue of a rule the table lacks.
C9_Witness ==
    /\ PlanPrinted
    /\ \E s \in Range(smells) : rule_short(s) \notin DOMAIN RULE_PRIORITY

\* the issues of the run, each with every rule of the model on its location
\* and message
ScoreUniverse ==
    {[s EXCEPT !.rule_id = r] :
        s \in Range(smells),
        r \in {identical_code, similar_code, nested_control_flow, boolean_logic, todo}}

\* the line span and the complexity count (0 when absent) of an issue
Span(s) == Max2(1, s.location.end_line - s.location.start_line + 1)

CountOrZero(s) == IF complexity_count(s) = None THEN 0 ELSE complexity_count(s)

\* what the score of an issue depends on, and the score, for every issue of
\* ScoreUniverse
ScoreFacts ==
    {[span |-> Span(s), count |-> CountOrZero(s), has_count |-> complexity_count(s) # None,
      prio |-> priority(s), score |-> severity_score(s)] : s \in ScoreUniverse}

\* C10: ten times severity_score is (6 - priority) * 100 + min(span, 100) * 3
\* + (complexity count or 0) * 5, and of two issues with equal span and equal
\* complexity count the one of the more urgent tier never scores lower; for
\* the issues of a run under the priority table the run has loaded (the table
\* and the list do not change after that), and once more when it has finished.
C10_SeverityScore ==
    pc \in {"filtered", "done"} =>
        /\ \A f \in ScoreFacts :
               f.score = (6 - f.prio) * 100
                             + (IF f.span < 100 THEN f.span ELSE 100) * 3
                             + f.count * 5
        /\ \A f, g \in ScoreFacts :
               (/\ f.span = g.span
                /\ f.count = g.count
                /\ f.has_count = g.has_count
                /\ f.prio < g.prio) =>
                   f.score >= g.score

\* C10 witness: a finished run over two issues of equal span and count and
\* different tiers.
C10_Witness ==
    /\ pc = "done"
    /\ \E s, u \in Range(smells) :
           /\ Span(s) = Span(u)
           /\ complexity_count(s) = complexity_count(u)
           /\ priority(s) < priority(u)
           /\ severity_score(s) > severity_score(u)

\* ------------------------------------------------------------------
\* C20: the groups of the plan
\* ------------------------------------------------------------------

\* the places of the lines of a kind in the plan
PlanPlaces(kind) == {i \in 1..Len(planOut) : planOut[i].kind = kind}

\* the last line of a kind before place i, 0 when there is none
LastBefore(kind, i) ==
    IF \E j \in PlanPlaces(kind) : j < i
    THEN CHOOSE j \in PlanPlaces(kind) :
             j < i /\ \A k \in PlanPlaces(kind) : k < i => k <= j
    ELSE 0

\* the issues of a tier
OfTier(prio) == SelectSeq(smells, LAMBDA s : priority(s) = prio)

RECURSIVE SumN(_)
SumN(lines) == IF lines = <<>> THEN 0 ELSE Head(lines).n + SumN(Tail(lines))

\* C20: the plan has one header per tier that has issues, in the order
\* CRITICAL, HIGH, MEDIUM, LOW, INFO, and none for a tier without issues; the
\* count of a header is the number of issues of its tier; under a header
\* each file of the tier has one file line, followed by the issues of that
\* tier in that file; every issue of the input has exactly one line (full
\* guidance or cross-reference), and the header counts sum to the number of
\* issues.
C20_PlanGroups ==
    PlanPrinted =>
        /\ \A i, j \in PlanPlaces("priority") :
               i < j => PriorityNamed(planOut[i].prio) < PriorityNamed(planOut[j].prio)
        /\ \A p \in Priority :
               (\E i \in PlanPlaces("priority") : planOut[i].prio = PriorityName(p))
                   <=> OfTier(p) # <<>>
        /\ \A i \in PlanPlaces("priority") :
               planOut[i].n = Len(OfTier(PriorityNamed(planOut[i].prio)))
        /\ \A i \in PlanPlaces("file") :
               /\ LastBefore("priority", i) > 0
               /\ \A j \in PlanPlaces("file") :
                      (/\ j # i
                       /\ LastBefore("priority", j) = LastBefore("priority", i))
                          => planOut[j].uri # planOut[i].uri
               /\ planOut[i].n =
                      Cardinality({k \in PlanPlaces("full") \cup PlanPlaces("xref") :
                                      LastBefore("file", k) = i})
        /\ \A k \in PlanPlaces("full") \cup PlanPlaces("xref") :
               LET f == LastBefore("file", k)
                   g == LastBefore("priority", k)
               IN  /\ 0 < g /\ g < f
                   /\ planOut[k].smell.location.uri = planOut[f].uri
                   /\ PriorityName(priority(planOut[k].smell)) = planOut[g].prio
        /\ SameElements([i \in 1..Len(PlanIssueLines) |-> PlanIssueLines[i].smell],
                        smells)
        /\ SumN(SelectSeq(planOut, LAMBDA e : e.kind = "priority")) = Len(smells)

\* a plan of two issues of two tiers, given in the reverse of the tier order:
\* two headers of count one, the more urgent tier first
C20_Witness ==
    /\ PlanPrinted
    /\ Len(smells) = 2
    /\ priority(smells[1]) > priority(smells[2])
    /\ Cardinality(PlanPlaces("priority")) = 2
    /\ \A i \in PlanPlaces("priority") : planOut[i].n = 1

\* ------------------------------------------------------------------
\* C21: the views on an empty issue set
\* ------------------------------------------------------------------

\* the document read has no result at all
EmptyFindings == doc # NoDocument /\ AllResults(doc) = <<>>

\* every row of the severity breakdown shows no issue and 0.0%
ZeroRows(rows) ==
    /\ Len(rows) = 3
    /\ \A i \in 1..3 : rows[i].n = 0 /\ rows[i].pct = [raised |-> "", tenths |-> 0]

\* the two views of the qlty CLI ended without an exception, with empty sections
EmptyQltyViews ==
    /\ report.total_issues = 0
    /\ report.top_files = <<>> /\ report.top_rules = <<>>
    /\ export.summary.raised = "" /\ export.markdown.raised = ""
    /\ export.summary.total = 0 /\ export.markdown.total = 0
    /\ ZeroRows(export.summary.severity) /\ ZeroRows(export.markdown.severity)
    /\ export.summary.category = <<>> /\ export.markdown.category = <<>>
    /\ export.summary.rules = <<>> /\ export.markdown.rules = <<>>
    /\ export.summary.files = <<>> /\ export.markdown.files = <<>>
    /\ export.markdown.sections = <<>>

\* the five views of fix_smells.py show a total of zero and nothing else
EmptySmellViews ==
    /\ export.summary = [total |-> 0, by_rule |-> <<>>]
    /\ export.detail = <<>>
    /\ export.plan = <<>>
    /\ export.json = <<>>
    /\ export.markdown = [total |-> 0, sections |-> <<>>]

\* C21: a findings document with an empty results array gives a report with
\* total_issues = 0, and every view of the empty issue set (summary, detail,
\* plan, structured export, markdown) ends without an exception: its
\* sections are empty and its percentages are 0, not a division by zero.
C21_EmptyViews ==
    /\ (pc = "rendered" /\ EmptyFindings) => EmptyQltyViews
    /\ (pc = "rendered_smells" /\ EmptyFindings) => EmptySmellViews

C21_Witness ==
    /\ pc = "rendered"
    /\ doc = SarifDocument(<<>>)
    /\ report.total_issues = 0
    /\ export.summary.raised = ""

\* ------------------------------------------------------------------
\* C22: a nested-control-flow smell in a language without a pattern
\* ------------------------------------------------------------------

\* the strategy of s runs NestedControlFlowStrategy.attempt_fix, and the
\* detected language of s is empty or has no entry in _NESTING_PATTERNS
Unpatterned(s) ==
    /\ get_strategy(rule_short(s)).attempt_fix = "nesting"
    /\ detected_language(s.location) \notin NestingLanguages

\* the iterations of apply_fixes that counted a smell as skipped
SkippedAttempts == SelectSeq(attempts, LAMBDA a : ~a.result)

\* C22: when the fix loop reaches a nested-control-flow smell whose detected
\* language is empty or has no rewrite pattern, attempt_fix returns False
\* without running ast-grep; the smell adds exactly one to the skipped count
\* (the count is the number of failed iterations) and the loop never comes
\* back to it: it is attempted as often as it occurs in the issue list, and
\* once the results are printed every occurrence was attempted.
C22_UnpatternedSkippedOnce ==
    FixStarted =>
        /\ skipped = Len(SkippedAttempts)
        /\ \A i \in 1..Len(attempts) :
              Unpatterned(attempts[i].smell) =>
                  /\ attempts[i].tool = "none"
                  /\ ~attempts[i].result
        /\ \A s \in Range(smells) :
              (Unpatterned(s) /\ IsFixable(s)) =>
                  /\ Occurrences(Attempted, s) <= Occurrences(smells, s)
                  /\ Occurrences(Attempted, s) + Occurrences(queue, s)
                         = Occurrences(smells, s)
                  /\ FixFinished => Occurrences(Attempted, s) = Occurrences(smells, s)

C22_Witness ==
    /\ FixFinished
    /\ \E i, j \in 1..Len(attempts) :
          /\ Unpatterned(attempts[i].smell)
          /\ detected_language(attempts[i].smell.location) = ""
          /\ Unpatterned(attempts[j].smell)
          /\ detected_language(attempts[j].smell.location) = "cobol"
    /\ skipped = 2

\* ------------------------------------------------------------------
\* C23: the lookup of a strategy by the short name
\* ------------------------------------------------------------------

\* the final namespace segment of a rule identifier
LastSegment(rule_id) == SplitLast(rule_id, ":")

\* the smells x and y carry rule identifiers with the same final segment
SameShortName(x, y) == LastSegment(x.rule_id) = LastSegment(y.rule_id)

\* the guidance of the plan that the strategy decides
StrategyPart(g) == <<g.title, g.instructions, g.banner>>

\* the blocks of the plan that carry guidance
FullLines == SelectSeq(planOut, LAMBDA l : l.kind = "full")

\* C23: for any two issues of the run whose rule identifiers end in the same
\* segment, the plan prints the same title, instructions and auto-fix banner,
\* the fix dispatcher selects both or neither and runs the same attempt_fix
\* for both (a strategy that never runs the tool runs it for neither), and
\* the lookup of the qlty report resolves the same strategy for both, or none
\* for both.
C23_LookupByShortName ==
    /\ \A i, j \in 1..Len(FullLines) :
          SameShortName(FullLines[i].smell, FullLines[j].smell) =>
              StrategyPart(FullLines[i].guidance) = StrategyPart(FullLines[j].guidance)
    /\ FixStarted =>
          \A x, y \in Range(smells) :
              SameShortName(x, y) =>
                  /\ x \in Range(FixSequence) <=> y \in Range(FixSequence)
                  /\ \A i, j \in 1..Len(attempts) :
                        (attempts[i].smell = x /\ attempts[j].smell = y
                         /\ detected_language(x.location) = detected_language(y.location))
                            => (attempts[i].tool = "none" <=> attempts[j].tool = "none")
    /\ \A x, y \in Range(smells) :
          SameShortName(x, y) => qlty_get_strategy(x.rule_id) = qlty_get_strategy(y.rule_id)

C23_Witness ==
    /\ FixFinished
    /\ PlanPrinted
    /\ \E i, j \in 1..Len(FullLines) :
          /\ FullLines[i].smell.rule_id # FullLines[j].smell.rule_id
          /\ SameShortName(FullLines[i].smell, FullLines[j].smell)
          /\ FullLines[i].guidance.banner = "Auto-fixable"
    /\ \E i, j \in 1..Len(attempts) :
          /\ attempts[i].smell.rule_id # attempts[j].smell.rule_id
          /\ SameShortName(attempts[i].smell, attempts[j].smell)

\* ------------------------------------------------------------------
\* C24: the severity of a parsed result
\* ------------------------------------------------------------------

\* the spellings of a word of the vocabulary
Spellings(word) ==
    CASE word = "error" -> {"error", "ERROR", "Error"}
      [] word = "warning" -> {"warning", "WARNING", "Warning"}
      [] word = "note" -> {"note", "NOTE", "Note"}

\* the severity the result is to get: INFO without a level, else the member
\* its level names in any spelling, NONE for any other string
SeverityOf(result) ==
    IF "level" \notin DOMAIN result THEN SeverityINFO
    ELSE CASE result.level \in Spellings("error") -> SeverityERROR
           [] result.level \in Spellings("warning") -> SeverityWARNING
           [] result.level \in Spellings("note") -> SeverityINFO
           [] OTHER -> SeverityNONE

\* the severity a level kept as a string stands for
SeverityWord(level) ==
    CASE level = "error" -> SeverityERROR
      [] level = "warning" -> SeverityWARNING
      [] level = "note" -> SeverityINFO
      [] OTHER -> SeverityNONE

\* the results parse_sarif keeps, and those parse_sarif_file keeps
SmellResults ==
    SelectSeq(AllResults(doc), LAMBDA r : HasLocations(r) /\ FirstUri(r) # <<>>)

IssueResults == SelectSeq(AllResults(doc), HasLocations)

\* C24 as stated: each parser gives a result the severity its level names,
\* whatever the case of the letters, NONE for a level outside the vocabulary,
\* and INFO when the result has no level.
C24_SeverityMapped ==
    /\ pc = "parsed_file" =>
           \A i \in 1..Len(issues) : issues[i].level = SeverityOf(IssueResults[i])
    /\ pc = "parsed" =>
           \A i \in 1..Len(smells) :
               SeverityWord(smells[i].level) = SeverityOf(SmellResults[i])

\* what holds of C24: parse_sarif_file maps the level as stated; parse_sarif
\* keeps the string of the document unchanged and gives a result without a
\* level the string "warning".
C24_SeverityByParser ==
    /\ pc = "parsed_file" =>
           \A i \in 1..Len(issues) : issues[i].level = SeverityOf(IssueResults[i])
    /\ pc = "parsed" =>
           \A i \in 1..Len(smells) :
               smells[i].level = Get(SmellResults[i], "level", "warning")

\* parse_sarif has parsed a result without a level
C24_Witness ==
    /\ pc = "parsed"
    /\ \E i \in 1..Len(smells) :
           /\ "level" \notin DOMAIN SmellResults[i]
           /\ smells[i].level = "warning"

\* parse_sarif_file has parsed a level in capitals, an unknown level and a
\* result without a level
C24_WitnessFile ==
    /\ pc = "parsed_file"
    /\ \E i, j \in 1..Len(issues) :
           /\ IssueResults[i] = UpperLevelResult /\ issues[i].level = SeverityERROR
           /\ IssueResults[j] = UnknownLevelResult /\ issues[j].level = SeverityNONE

\* ------------------------------------------------------------------
\* C25: the top lists of a report
\* ------------------------------------------------------------------

\* the place where key k first occurs in keys
FirstAt(keys, k) == SetMin({i \in 1..Len(keys) : keys[i] = k})

\* x goes before y in a top list: more issues, or as many and seen first
TopBefore(keys, x, y) ==
    \/ Occurrences(keys, x) > Occurrences(keys, y)
    \/ /\ Occurrences(keys, x) = Occurrences(keys, y)
       /\ FirstAt(keys, x) < FirstAt(keys, y)

\* top is the list of the at most 20 first keys of keys in that order, each
\* with its count, taken from the counter by
IsTopList(top, by, keys) ==
    /\ Len(top) = Min2(20, Cardinality(Range(keys)))
    /\ \A i \in 1..Len(top) :
          /\ top[i] \in Range(by)
          /\ top[i].key \in Range(keys)
          /\ top[i].n = Occurrences(keys, top[i].key)
    /\ \A i, j \in 1..Len(top) :
          i < j => TopBefore(keys, top[i].key, top[j].key)
    /\ \A k \in Range(keys) \ {top[i].key : i \in 1..Len(top)} :
          \A i \in 1..Len(top) : TopBefore(keys, top[i].key, k)

\* C25: top_files and top_rules hold items of by_file and by_rule: the keys
\* by descending count, keys with equal counts in the order of their first
\* occurrence in the issue list, cut after 20 entries; analysing the same
\* list again gives the same two lists.
C25_TopLists ==
    pc = "analyzed" =>
        /\ IsTopList(report.top_files, report.by_file,
                     [i \in 1..Len(issues) |-> issues[i].file_path])
        /\ IsTopList(report.top_rules, report.by_rule,
                     [i \in 1..Len(issues) |-> issues[i].rule_id])
        /\ AnalyzeIssues(issues).top_files = report.top_files
        /\ AnalyzeIssues(issues).top_rules = report.top_rules

\* a list with 22 files was analysed: the top list holds 20 of them, the
\* two files with more than one issue first
C25_Witness ==
    /\ pc = "analyzed"
    /\ Len(report.by_file) = 22
    /\ Len(report.top_files) = 20
    /\ report.top_files[1] = [key |-> NumberedFile(21), n |-> 3]
    /\ report.top_files[2] = [key |-> NumberedFile(22), n |-> 2]
    /\ report.top_files[3] = [key |-> NumberedFile(1), n |-> 1]

\* ------------------------------------------------------------------
\* C26: the two fingerprint keys
\* ------------------------------------------------------------------

\* C26 as stated: an issue parsed from a result that has both keys carries
\* the fingerprints of "partialFingerprints"; an issue carries those of
\* "fingerprints" only if the result has no "partialFingerprints".
C26_FirstKeyPreferred ==
    /\ pc = "parsed_file" =>
           \A i \in 1..Len(issues) :
               LET r == IssueResults[i]
               IN  /\ ({"partialFingerprints", "fingerprints"} \subseteq DOMAIN r)
                          => issues[i].fingerprints = r.partialFingerprints
                   /\ ( /\ "fingerprints" \in DOMAIN r
                         /\ issues[i].fingerprints = r.fingerprints
                         /\ r.fingerprints # Get(r, "partialFingerprints",
                                                 NoFingerprints) )
                          => "partialFingerprints" \notin DOMAIN r
    /\ pc = "parsed" =>
           \A i \in 1..Len(smells) :
               LET r == SmellResults[i]
               IN  "partialFingerprints" \in DOMAIN r
                       => smells[i].fingerprints = r.partialFingerprints

\* what holds of C26: parse_sarif_file takes "partialFingerprints" unless it
\* is missing or empty, and "fingerprints" (or the empty dict) then;
\* parse_sarif reads "partialFingerprints" alone.
C26_FingerprintsByParser ==
    /\ pc = "parsed_file" =>
           \A i \in 1..Len(issues) :
               LET r == IssueResults[i]
                   first == Get(r, "partialFingerprints", NoFingerprints)
               IN  issues[i].fingerprints =
                       (IF DOMAIN first # {} THEN first
                        ELSE Get(r, "fingerprints", NoFingerprints))
    /\ pc = "parsed" =>
           \A i \in 1..Len(smells) :
               smells[i].fingerprints =
                   Get(SmellResults[i], "partialFingerprints", NoFingerprints)

\* parse_sarif_file has parsed a result whose first key is present and empty:
\* the issue carries the fingerprints of the second key
C26_Witness ==
    /\ pc = "parsed_file"
    /\ \E i \in 1..Len(issues) :
           /\ IssueResults[i] = EmptyFirstKeyResult
           /\ issues[i].fingerprints = FunctionFingerprint(<<"m">>)

\* parse_sarif_file has parsed a result with both keys filled
C26_WitnessBoth ==
    /\ pc = "parsed_file"
    /\ \E i \in 1..Len(issues) :
           /\ IssueResults[i] = BothKeysResult
           /\ issues[i].fingerprints = FunctionFingerprint(<<"f">>)

\* ------------------------------------------------------------------
\* C27: the counts apply_fixes prints
\* ------------------------------------------------------------------

\* the registry holds an auto-fixable strategy under the last segment of the
\* rule identifier of s
AutoFixable(s) ==
    /\ LastSegment(s.rule_id) \in DOMAIN STRATEGY_REGISTRY
    /\ STRATEGY_REGISTRY[LastSegment(s.rule_id)].auto_fixable

AutoFixableCount == Cardinality({i \in 1..Len(smells) : AutoFixable(smells[i])})

\* C27: when apply_fixes has printed its results, fixed + skipped is the
\* number of auto-fixable issues, the manual-review count is the total minus
\* that number, so the three counts add up to the number of issues; the loop
\* ran attempt_fix once for every auto-fixable issue of the list and for no
\* other issue.
C27_CountsAddUp ==
    FixFinished =>
        /\ tally.fixed + tally.skipped = AutoFixableCount
        /\ tally.manual = Len(smells) - AutoFixableCount
        /\ tally.fixed + tally.skipped + tally.manual = Len(smells)
        /\ tally.total = Len(smells)
        /\ Len(attempts) = AutoFixableCount
        /\ \A s \in Range(smells) :
              Occurrences(Attempted, s) =
                  (IF AutoFixable(s) THEN Occurrences(smells, s) ELSE 0)

\* a run on two issues: one fixed by the tool, one left for manual review
C27_Witness ==
    /\ FixFinished
    /\ Len(smells) = 2
    /\ tally.fixed = 1
    /\ tally.skipped = 0
    /\ tally.manual = 1

\* ------------------------------------------------------------------
\* C28: an auto-fixable strategy without an attempt_fix of its own
\* ------------------------------------------------------------------

\* s is a boolean-logic issue
IsBooleanLogic(s) == LastSegment(s.rule_id) = boolean_logic

\* C28: boolean-logic is marked auto-fixable and inherits FixStrategy.attempt_fix,
\* which returns False: the plan shows its issues with the auto-fixable
\* banner, apply_fixes selects every one of them, and each attempt ends
\* without a call of ast-grep and is counted as skipped, never as fixed.
C28_InheritedAttemptFixSkips ==
    /\ get_strategy(boolean_logic).auto_fixable
    /\ get_strategy(boolean_logic).attempt_fix = "base"
    /\ \A i \in 1..Len(FullLines) :
          IsBooleanLogic(FullLines[i].smell) =>
              FullLines[i].guidance.banner = "Auto-fixable"
    /\ FixStarted =>
          /\ \A s \in Range(smells) :
                IsBooleanLogic(s) =>
                    Occurrences(FixSequence, s) = Occurrences(smells, s)
          /\ \A i \in 1..Len(attempts) :
                IsBooleanLogic(attempts[i].smell) =>
                    /\ attempts[i].tool = "none"
                    /\ ~attempts[i].result
          /\ fixed = Cardinality({i \in 1..Len(attempts) :
                                     /\ ~IsBooleanLogic(attempts[i].smell)
                                     /\ attempts[i].result})
          /\ skipped >= Cardinality({i \in 1..Len(attempts) :
                                        IsBooleanLogic(attempts[i].smell)})

\* a finished run whose plan advertised a boolean-logic issue as auto-fixable
\* and whose fix loop skipped it, with ast-grep installed
C28_Witness ==
    /\ FixFinished
    /\ ast_grep_installed
    /\ \E i \in 1..Len(FullLines) :
          /\ IsBooleanLogic(FullLines[i].smell)
          /\ FullLines[i].guidance.banner = "Auto-fixable"
    /\ \E i \in 1..Len(attempts) : IsBooleanLogic(attempts[i].smell)
    /\ tally.fixed = 0
    /\ tally.skipped = Len(smells)

\* ------------------------------------------------------------------
\* C29: what a run leaves alone
\* ------------------------------------------------------------------

\* the step is a report or the fix action of fix_smells.py
ReportOrFixStep ==
    pc \in {"main_summary", "main_detail", "main_plan", "main_fix", "main_json",
            "main_markdown"}

\* C29: in a run of fix_smells.py the priority table changes in load_config
\* only, and load_config ends before the findings are parsed; no step changes
\* the strategy registry; the filter step only drops issues, the report and
\* fix steps leave the issue list as it is; so from the filter on every issue
\* keeps its priority and its severity score through every step, the reports
\* after the fix action included.
C29_TableFrame ==
    [][ /\ STRATEGY_REGISTRY' = STRATEGY_REGISTRY
        /\ RULE_PRIORITY' # RULE_PRIORITY =>
              /\ pc = "main_config"
              /\ "parse" \notin Range(trace)
              /\ smells = <<>>
              /\ Range(trace') = {"load_config"}
        /\ ReportOrFixStep => smells' = smells
        /\ pc = "main_filter" =>
              /\ Range(smells') \subseteq Range(smells)
              /\ Len(smells') <= Len(smells)
        /\ (ReportOrFixStep \/ pc = "main_filter") =>
              \A s \in Range(smells) :
                  /\ priority(s)' = priority(s)
                  /\ severity_score(s)' = severity_score(s)
      ]_vars

\* a run that loaded a configuration changing a priority, fixed, then
\* exported: the export after the fix shows the priority of the configuration
C29_Witness ==
    /\ pc = "exited"
    /\ exit_code = 0
    /\ RULE_PRIORITY # DefaultRulePriority
    /\ \E i, j, k \in 1..Len(trace) :
          /\ i < j /\ j < k
          /\ trace[i] = "load_config" /\ trace[j] = "fix" /\ trace[k] = "json"
    /\ \E i \in 1..Len(export) :
          /\ export[i].rule = nested_control_flow
          /\ export[i].priority = "LOW"

\* ------------------------------------------------------------------
\* C30: --check, --smells and --type
\* ------------------------------------------------------------------

\* the kinds a command line asks for: those of the flags when one is given,
\* those of --type otherwise
WantsChecks(args) ==
    IF args.check \/ args.smells THEN args.check ELSE args.type \in {"checks", "both"}

WantsSmells(args) ==
    IF args.check \/ args.smells THEN args.smells ELSE args.type \in {"smells", "both"}

\* C30: with --check or --smells on the command line the checks are
\* collected exactly when --check is set and the smells exactly when --smells
\* is set, whatever --type says; with neither flag the kinds are those of
\* --type; the checks are collected first, so every check issue comes before
\* every smell issue in the collected list.
C30_CollectedKinds ==
    pc = "collected" =>
        /\ "checks" \in Range(resAB.calls) <=> WantsChecks(resAB.args)
        /\ "smells" \in Range(resAB.calls) <=> WantsSmells(resAB.args)
        /\ Len(resAB.calls) <= 2
        /\ \A i, j \in 1..Len(resAB.calls) :
              (resAB.calls[i] = "checks" /\ resAB.calls[j] = "smells") => i < j
        /\ Len(resAB.out) =
              (IF WantsChecks(resAB.args) THEN Len(resAB.checks_file) ELSE 0)
              + (IF WantsSmells(resAB.args) THEN Len(resAB.smells_file) ELSE 0)
        /\ \A i, j \in 1..Len(resAB.out) :
              (resAB.out[i].category = "check" /\ resAB.out[j].category = "smell")
                  => i < j
        /\ \A i \in 1..Len(resAB.out) : resAB.out[i].category \in {"check", "smell"}

\* --check with --type both and a smells file that holds issues: the checks
\* alone were collected
C30_Witness ==
    /\ pc = "collected"
    /\ resAB.args = CollectArgs("both", TRUE, FALSE)
    /\ resAB.smells_file # <<>>
    /\ resAB.checks_file # <<>>
    /\ resAB.calls = <<"checks">>
    /\ Len(resAB.out) = 1
    /\ resAB.out[1].category = "check"

====
